---- MODULE Spec2Model ----
(***************************************************************************)
(* Offline-first synchronisation layer of the journal web client.          *)
(*                                                                         *)
(* Two stores are modelled: the remote repository (Firestore collections   *)
(* "entries" and "surveys") and the on-device IndexedDB stores (entries,   *)
(* metadata, dates in script.js; drafts and surveysCache in db.js).        *)
(* Every async handler is split at its awaits: one action per remote call  *)
(* or IndexedDB transaction, with the synchronous code that follows it.    *)
(*                                                                         *)
(* Time is an integer number of ticks, DayLen ticks per local calendar     *)
(* day.  A Date, its ISO string and its Firestore Timestamp are the same   *)
(* tick (the conversions of the source round-trip at millisecond           *)
(* precision); day keys and local-midnight normalisation are computed.     *)
(***************************************************************************)
EXTENDS Integers, Sequences, FiniteSets, TLC

\* ------------------------------------------------------------------ bounds
MaxIds == 3          \* entry documents that can ever exist
MaxNow == 3          \* last tick of the clock
DayLen == 2          \* ticks per local calendar day
PageSize == 2        \* PAGINATION_CONFIG.pageSize, scaled down from 50
MaxSurveys == 3      \* survey documents that can ever exist
MaxVersion == 1      \* distinct contents of an entry or of a survey form
MaxOps == 3          \* handler invocations in one behaviour
SurveyLimit == 2     \* getUserSurveys default limit, scaled down from 50

\* --------------------------------------------------------------- constants
Users == {"u1", "u2"}
NoUser == "none"
NoSync == -1         \* no lastSync_<userId> record in the metadata store
Absent == -1         \* a field the record does not carry
Ids == 1..MaxIds
Times == 0..MaxNow
Images == {"imgA", "imgB"}

\* CACHE_CONFIG
maxAge == DayLen

NoEntry == [id |-> 0, userId |-> NoUser, content |-> 0, date |-> 0,
            images |-> {}, updatedAt |-> Absent]

VARIABLES
    now,            \* Date.now() / serverTimestamp()
    ops,            \* handlers invoked so far
    currentUser,    \* script.js module variable currentUser (uid or NoUser)
    staleWhileRevalidate,   \* CACHE_CONFIG.staleWhileRevalidate
    remote,         \* Firestore collection "entries": set of documents
    everStored,     \* ids of all documents the remote ever accepted
    cache,          \* IndexedDB store "entries" (keyPath id)
    lastSync,       \* IndexedDB store "metadata": lastSync_<userId>
    datesCache,     \* IndexedDB store "dates" (keyPath userId)
    entryDates,     \* PAGINATION_CONFIG.entryDates
    pagination,     \* PAGINATION_CONFIG.lastVisible / hasMore
    journalEntries, \* in-memory list shown by displayAllEntries
    lPc,            \* position of loadEntries / fetchAndMergeUpdates
    cachedEntries,  \* loadEntries: cachedEntries
    isStale,        \* loadEntries: isStale
    fLastSync,      \* fetchAndMergeUpdates: lastSync
    fEntries,       \* fetchAndMergeUpdates: entries
    fErr,           \* error caught by fetchAndMergeUpdates / loadEntries
    lBefore,        \* entries store and watermark as they were when load was called
    lReturned,      \* loadEntries has returned to its caller
    lOther,         \* the locals of a second loadEntries call, pending at an await
    mPc,            \* position of the running entry mutation
    mKind,          \* "save" | "edit" | "move" | "delete"
    entryIndex,     \* mutation handlers: entryIndex
    mEntry,         \* newEntry / updatedEntry / entryToDelete
    imgFailed,      \* deleteEntry: images whose deleteImage threw
    imgTried,       \* deleteEntry: images whose deletion has been attempted and has settled
    mErr,           \* error caught by the mutation handler
    mBefore,        \* local stores as they were when the mutation was called
    remoteSurveys,  \* Firestore collection "surveys"
    surveysCache,   \* IndexedDB store "surveysCache" (keyPath metadata.targetDate)
    drafts,         \* IndexedDB store "drafts" (keyPath data.metadata.targetDate)
    smData,         \* SurveyManager.data
    smPc,           \* position of SurveyManager.submitSurvey
    smErr,          \* error caught by SurveyManager.submitSurvey
    smBefore,       \* surveysCache and drafts as they were when submitSurvey was called
    saveTimer,      \* the debounced saveDraft is pending
    surveysStore,   \* IndexedDB store "surveys" (keyPath id, autoIncrement)
    dbPc,           \* position of the running DatabaseService call
    dbRes,          \* what the last DatabaseService call returned or threw
    dbBefore,       \* surveysCache, drafts and surveys as they were when it was called
    clDrafts,       \* cleanupOldDrafts: the drafts it still has to look at
    dbSaved         \* drafts saved while cleanupOldDrafts was running

entryVars == <<remote, everStored, cache, lastSync, datesCache, entryDates,
               pagination, journalEntries>>
loadVars == <<lPc, cachedEntries, isStale, fLastSync, fEntries, fErr, lBefore,
             lReturned, lOther>>
mutVars == <<mPc, mKind, entryIndex, mEntry, imgFailed, imgTried, mErr, mBefore>>
surveyVars == <<remoteSurveys, surveysCache, drafts, smData, smPc, smErr, smBefore,
               saveTimer>>
dbVars == <<surveysStore, dbPc, dbRes, dbBefore, clDrafts, dbSaved>>
vars == <<now, ops, currentUser, staleWhileRevalidate, entryVars, loadVars, mutVars, surveyVars, dbVars>>

\* ---------------------------------------------------------------- helpers
\* formatDateKey: the local calendar day of a date
formatDateKey(date) == date \div DayLen

\* DatabaseService._getLocalMidnight: setHours(0,0,0,0) on a copy
getLocalMidnight(date) == date - (date % DayLen)

Range(s) == {s[i] : i \in 1..Len(s)}
IdsOf(s) == {s[i].id : i \in 1..Len(s)}
Take(s, n) == SubSeq(s, 1, IF Len(s) < n THEN Len(s) ELSE n)

\* Array.prototype.sort((a, b) => new Date(b.date) - new Date(a.date)):
\* newest first, stable
RECURSIVE sortByDateDesc(_)
sortByDateDesc(s) ==
    IF s = <<>> THEN <<>>
    ELSE LET x == Head(s)
             rest == sortByDateDesc(Tail(s))
             k == Cardinality({i \in 1..Len(rest) : rest[i].date > x.date})
         IN SubSeq(rest, 1, k) \o <<x>> \o SubSeq(rest, k + 1, Len(rest))

\* ------------------------------------------------- remote repository client
ByDateDesc(a, b) == a.date > b.date \/ (a.date = b.date /\ a.id > b.id)
ByUpdatedDesc(a, b) ==
    a.updatedAt > b.updatedAt \/ (a.updatedAt = b.updatedAt /\ ByDateDesc(a, b))

\* orderBy('date', 'desc')
RECURSIVE orderByDate(_)
orderByDate(S) ==
    IF S = {} THEN <<>>
    ELSE LET x == CHOOSE x \in S : \A y \in S \ {x} : ByDateDesc(x, y)
         IN <<x>> \o orderByDate(S \ {x})

\* orderBy('updatedAt', 'desc'), orderBy('date', 'desc')
RECURSIVE orderByUpdatedAt(_)
orderByUpdatedAt(S) ==
    IF S = {} THEN <<>>
    ELSE LET x == CHOOSE x \in S : \A y \in S \ {x} : ByUpdatedDesc(x, y)
         IN <<x>> \o orderByUpdatedAt(S \ {x})

\* getUserEntries(userId, {lastSync, limit}): one page of the query
getUserEntries(docs, userId, since, pageSize) ==
    LET mine == {d \in docs : d.userId = userId}
        all == IF since # NoSync
               THEN orderByUpdatedAt({d \in mine : d.updatedAt > since})
               ELSE orderByDate(mine)
        entries == Take(all, pageSize)
    IN [entries |-> entries,
        lastVisible |-> IF entries = <<>> THEN 0 ELSE entries[Len(entries)].id,
        hasMore |-> Len(entries) = pageSize]

\* ------------------------------------------------------------ local store
\* index.getAll(userId): the user's records in primary-key order
RECURSIVE getAll(_)
getAll(S) ==
    IF S = {} THEN <<>>
    ELSE LET x == CHOOSE x \in S : \A y \in S \ {x} : x.id < y.id
         IN <<x>> \o getAll(S \ {x})

\* a validity test that would still accept a cache of exactly maxAge
isCacheValidInclusive(sync, t) == sync # NoSync /\ (t - sync) <= maxAge

\* a cache read that would return the stored entries whatever the setting
getFromCacheIgnoringFlag(store, sync, userId, t) ==
    [entries |-> getAll({e \in store : e.userId = userId}),
     isStale |-> ~(sync # NoSync /\ (t - sync) < maxAge)]

\* getFromCache's transaction: lastSync_<userId>, then index.getAll(userId)
isCacheValid(sync, t) == sync # NoSync /\ (t - sync) < maxAge

getFromCache(store, sync, userId, t) ==
    IF ~isCacheValid(sync, t) /\ ~staleWhileRevalidate
    THEN [entries |-> <<>>, isStale |-> TRUE]
    ELSE [entries |-> getAll({e \in store : e.userId = userId}),
          isStale |-> ~isCacheValid(sync, t)]

\* updateCache's transaction on the entries store.  Its requests run in the
\* order they are placed: openKeyCursor(userId) first, then every put of the
\* forEach, and only then the delete and continue that the cursor's onsuccess
\* places, one record at a time.  The cursor starts at the user's smallest key
\* of before the puts and walks the live index from there, so it deletes every
\* record of the user from that key on, the ones just put included.
RECURSIVE PutAll(_, _)
PutAll(store, s) ==
    IF s = <<>> THEN store
    ELSE PutAll({e \in store : e.id # Head(s).id} \cup {Head(s)}, Tail(s))

cursorStart(store, userId) ==
    LET keys == {e.id : e \in {x \in store : x.userId = userId}}
    IN IF keys = {} THEN 0 ELSE CHOOSE k \in keys : \A j \in keys : k <= j

updateCache(store, userId, entries) ==
    LET first == cursorStart(store, userId)
        put == PutAll(store, [i \in 1..Len(entries) |->
                                 [entries[i] EXCEPT !.userId = userId]])
    IN IF first = 0 THEN put
       ELSE {e \in put : ~(e.userId = userId /\ e.id >= first)}

\* a persist that would commit the entries without the watermark
putLastSyncSkipped(sync, userId, syncTime) == sync

\* updateCache's transaction on the metadata store:
\* metadataStore.put({key: `lastSync_${userId}`, timestamp: syncTime})
putLastSync(sync, userId, syncTime) == [sync EXCEPT ![userId] = syncTime]

\* addToCache: store.put({...entry, userId})
addToCache(store, userId, entry) ==
    {e \in store : e.id # entry.id} \cup {[entry EXCEPT !.userId = userId]}

\* removeFromCache: store.delete(entryId)
removeFromCache(store, entryId) == {e \in store : e.id # entryId}

\* a merge that would not drop the cached copies of the fetched entries
mergeUpdatesKeepingStale(cached, entries) == sortByDateDesc(entries \o cached)

\* fetchAndMergeUpdates: the merge of the fetched entries into cachedEntries
mergeUpdates(cached, entries) ==
    LET nonUpdatedEntries == SelectSeq(cached, LAMBDA e : e.id \notin IdsOf(entries))
    IN sortByDateDesc(IF cached # <<>> THEN entries \o nonUpdatedEntries ELSE entries)

\* -------------------------------------------------------------------- Init
\* the locals of a loadEntries call that has not started
NoLoad == [lPc |-> "idle", cachedEntries |-> <<>>, isStale |-> FALSE,
           fLastSync |-> NoSync, fEntries |-> <<>>, fErr |-> "none",
           lBefore |-> <<{}, [u \in Users |-> NoSync]>>, lReturned |-> FALSE]

\* no DatabaseService call has returned yet
NoRes == [op |-> "none", targetDate |-> 0, userId |-> NoUser, from |-> "none",
          status |-> "none", version |-> 0, remoteCalled |-> FALSE,
          exists |-> FALSE, err |-> "none"]

InitDoc(i) == [id |-> i, userId |-> "u1", content |-> 1, date |-> i % 2,
               images |-> {}, updatedAt |-> 0]

\* the stores and the locals after construction
InitStores ==
    /\ now = 1
    /\ ops = 0
    /\ currentUser = "u1"
    /\ \E k \in 0..MaxIds : /\ remote = {InitDoc(i) : i \in 1..k}
                           /\ everStored = 1..k
    /\ cache = {}
    /\ lastSync = [u \in Users |-> NoSync]
    /\ datesCache = [u \in Users |-> {}]
    /\ entryDates = {}
    /\ pagination = [lastVisible |-> 0, hasMore |-> TRUE]
    /\ journalEntries = <<>>
    /\ lPc = "idle" /\ cachedEntries = <<>> /\ isStale = FALSE
    /\ fLastSync = NoSync /\ fEntries = <<>> /\ fErr = "none"
    /\ lBefore = <<{}, [u \in Users |-> NoSync]>> /\ lReturned = FALSE
    /\ lOther = NoLoad
    /\ mPc = "idle" /\ mKind = "none" /\ entryIndex = 0 /\ mEntry = NoEntry
    /\ imgFailed = {} /\ imgTried = {} /\ mErr = "none"
    /\ mBefore = <<{}, [u \in Users |-> NoSync], [u \in Users |-> {}], {}>>
    /\ remoteSurveys = {} /\ surveysCache = {} /\ drafts = {}
    /\ smData = [targetDate |-> Absent, version |-> 0]
    /\ smPc = "idle" /\ smErr = "none" /\ saveTimer = FALSE
    /\ smBefore = <<{}, {}>>
    /\ surveysStore = {} /\ dbPc = "idle" /\ dbRes = NoRes
    /\ dbBefore = <<{}, {}, {}>> /\ clDrafts = <<>> /\ dbSaved = {}

\* CACHE_CONFIG as the source sets it
Init == InitStores /\ staleWhileRevalidate = TRUE

LoadIdle == lPc \in {"idle", "done", "failed"}
MutIdle == mPc \in {"idle", "done", "failed"}

\* locals of a handler that has returned are dropped when the next one starts
DropLoad ==
    IF LoadIdle
    THEN /\ lPc' = "idle" /\ cachedEntries' = <<>> /\ isStale' = FALSE
         /\ fLastSync' = NoSync /\ fEntries' = <<>> /\ fErr' = "none"
         /\ lBefore' = <<{}, [u \in Users |-> NoSync]>> /\ lReturned' = FALSE
         /\ UNCHANGED lOther
    ELSE UNCHANGED loadVars
DropMut ==
    IF MutIdle
    THEN /\ mPc' = "idle" /\ mKind' = "none" /\ entryIndex' = 0 /\ mEntry' = NoEntry
         /\ imgFailed' = {} /\ imgTried' = {} /\ mErr' = "none"
         /\ mBefore' = <<{}, [u \in Users |-> NoSync], [u \in Users |-> {}], {}>>
    ELSE UNCHANGED mutVars

\* the clock, observed between handler steps
Tick == /\ now < MaxNow
        /\ LoadIdle /\ MutIdle
        /\ now' = now + 1
        /\ UNCHANGED <<ops, currentUser, staleWhileRevalidate, entryVars, loadVars, mutVars, surveyVars, dbVars>>

\* ------------------------------------------------------------- loadEntries
\* a loadEntries that would await the delta fetch of a stale cache as well
afterCacheReadAwaiting(entries, stale) == "fetch"

\* loadEntries after the display of a non-empty cache: a stale cache schedules
\* fetchAndMergeUpdates with setTimeout and returns, a valid one awaits it
afterCacheRead(entries, stale) ==
    IF Len(entries) > 0 /\ stale THEN "background" ELSE "fetch"

\* loadEntries up to the first await of fetchAndMergeUpdates: the cache read,
\* and the immediate display when the cache holds entries
loadEntries(outcome) ==
    /\ currentUser # NoUser
    /\ LoadIdle
    /\ fErr' = (IF outcome = "readFail" THEN "cacheRead" ELSE "none")
    /\ fLastSync' = NoSync /\ fEntries' = <<>>
    /\ lBefore' = <<cache, lastSync>>
    /\ CASE outcome = "readFail" ->
              \* the transaction's request failed: loadEntries' catch
              /\ journalEntries' = <<>>
              /\ cachedEntries' = <<>> /\ isStale' = TRUE
              /\ lPc' = "failed"
         [] outcome = "openFail" ->
              \* initializeDB failed: getFromCache's catch, an empty stale cache
              /\ cachedEntries' = <<>> /\ isStale' = TRUE
              /\ lPc' = "fetch"
              /\ UNCHANGED journalEntries
         [] OTHER ->
              LET r == getFromCache(cache, lastSync[currentUser], currentUser, now)
                  shown == sortByDateDesc(r.entries)  \* displayAllEntries sorts in place
              IN /\ isStale' = r.isStale
                 /\ IF Len(r.entries) > 0
                    THEN /\ journalEntries' = shown
                         /\ cachedEntries' = shown
                         /\ lPc' = afterCacheRead(r.entries, r.isStale)
                    ELSE /\ cachedEntries' = r.entries
                         /\ lPc' = "fetch"
                         /\ UNCHANGED journalEntries
    /\ lReturned' = (lPc' \in {"background", "failed"})
    /\ DropMut
    /\ ops < MaxOps /\ ops' = ops + 1
    /\ UNCHANGED <<now, currentUser, staleWhileRevalidate, remote, everStored, cache, lastSync, datesCache,
                   entryDates, pagination, lOther, surveyVars, dbVars>>

\* fetchAndMergeUpdates up to the remote query: getLastSyncTime, pagination reset
getLastSyncTime(ok) ==
    /\ lPc \in {"fetch", "background"}
    /\ currentUser # NoUser
    /\ IF ok
       THEN /\ fLastSync' = lastSync[currentUser]
            /\ pagination' = [lastVisible |-> 0, hasMore |-> TRUE]
            /\ lPc' = "query"
            /\ UNCHANGED fErr
       ELSE /\ fErr' = "lastSync"
            /\ lPc' = "done"
            /\ UNCHANGED <<fLastSync, pagination>>
    /\ lReturned' = (lReturned \/ lPc' = "done")
    /\ UNCHANGED <<now, ops, currentUser, staleWhileRevalidate, remote, everStored, cache, lastSync, datesCache,
                   entryDates, journalEntries, cachedEntries, isStale, fEntries, lBefore, lOther,
                   mutVars, surveyVars, dbVars>>

\* a query failure that would reach loadEntries' catch, which empties the list
fetchQueryRethrown(ok) ==
    /\ lPc = "query"
    /\ IF ok
       THEN LET since == IF Len(cachedEntries) > 0 THEN fLastSync ELSE NoSync
                r == getUserEntries(remote, currentUser, since, PageSize)
            IN /\ fEntries' = r.entries
               /\ pagination' = [lastVisible |-> r.lastVisible, hasMore |-> r.hasMore]
               /\ lPc' = "merge"
               /\ UNCHANGED <<fErr, journalEntries>>
       ELSE /\ fErr' = "query"
            /\ lPc' = "done"
            /\ journalEntries' = <<>>
            /\ UNCHANGED <<fEntries, pagination>>
    /\ lReturned' = (lReturned \/ lPc' = "done")
    /\ UNCHANGED <<now, ops, currentUser, staleWhileRevalidate, remote, everStored, cache, lastSync, datesCache,
                   entryDates, cachedEntries, isStale, fLastSync, lBefore, lOther,
                   mutVars, surveyVars, dbVars>>

\* fetchAndMergeUpdates: the await of getUserEntries
fetchQuery(ok) ==
    /\ lPc = "query"
    /\ IF ok
       THEN LET since == IF Len(cachedEntries) > 0 THEN fLastSync ELSE NoSync
                r == getUserEntries(remote, currentUser, since, PageSize)
            IN /\ fEntries' = r.entries
               /\ pagination' = [lastVisible |-> r.lastVisible, hasMore |-> r.hasMore]
               /\ lPc' = "merge"
               /\ UNCHANGED fErr
       ELSE /\ fErr' = "query"
            /\ lPc' = "done"
            /\ UNCHANGED <<fEntries, pagination>>
    /\ lReturned' = (lReturned \/ lPc' = "done")
    /\ UNCHANGED <<now, ops, currentUser, staleWhileRevalidate, remote, everStored, cache, lastSync, datesCache,
                   entryDates, journalEntries, cachedEntries, isStale, fLastSync, lBefore, lOther,
                   mutVars, surveyVars, dbVars>>

\* loadCalendarDates (not awaited by its caller): the dates store, when it holds
\* dates, replaces PAGINATION_CONFIG.entryDates; otherwise the call of
\* getEntryDates, which script.js does not import, throws
loadCalendarDates(cachedDates, current) ==
    IF cachedDates # {} THEN cachedDates ELSE current

\* fetchAndMergeUpdates after the query: merge, updateCache, display
fetchMerge(ok) ==
    /\ lPc = "merge"
    /\ lPc' = "done"
    /\ IF Len(fEntries) > 0
       THEN LET updatedEntries == mergeUpdates(cachedEntries, fEntries)
            IN IF ok
               THEN /\ cache' = updateCache(cache, currentUser, updatedEntries)
                    /\ lastSync' = putLastSync(lastSync, currentUser, now)
                    /\ journalEntries' = updatedEntries
                    /\ entryDates' = loadCalendarDates(datesCache[currentUser], entryDates)
                    /\ UNCHANGED fErr
               ELSE /\ fErr' = "cacheWrite"
                    /\ UNCHANGED <<cache, lastSync, journalEntries, entryDates>>
       ELSE /\ ok
            /\ journalEntries' = IF Len(cachedEntries) > 0 THEN cachedEntries
                                 ELSE journalEntries
            /\ UNCHANGED <<cache, lastSync, entryDates, fErr>>
    /\ lReturned' = (lReturned \/ lPc' = "done")
    /\ UNCHANGED <<now, ops, currentUser, staleWhileRevalidate, remote, everStored, datesCache, pagination,
                   cachedEntries, isStale, fLastSync, fEntries, lBefore, lOther, mutVars,
                   surveyVars, dbVars>>

\* ---------------------------------------------------------- entry mutations
Contents == 0..MaxVersion       \* 0 is the empty text
ImageSets == {{}, Images}

LocalStores == <<cache, lastSync, datesCache, entryDates>>

\* findIndex of the handlers: the first entry of the list with the content and
\* the displayed date and time of the clicked element (ticks are whole minutes)
findIndex(list, content, date) ==
    LET hits == {j \in 1..Len(list) : list[j].content = content /\ list[j].date = date}
    IN IF hits = {} THEN 0 ELSE CHOOSE j \in hits : \A k \in hits : j <= k

\* Array.prototype.splice(i, 1)
splice(list, i) ==
    IF i \in 1..Len(list)
    THEN SubSeq(list, 1, i - 1) \o SubSeq(list, i + 1, Len(list))
    ELSE list

\* a create that would skip the check of content and images
saveEntryUnvalidated(content, images, uploaded) ==
    /\ currentUser # NoUser
    /\ MutIdle
    /\ uploaded \/ images # {}
    /\ mKind' = "save"
    /\ entryIndex' = 0
    /\ imgFailed' = {} /\ imgTried' = {}
    /\ mBefore' = LocalStores
    /\ mEntry' = [id |-> 0, userId |-> NoUser, content |-> content, date |-> now,
                  images |-> images, updatedAt |-> Absent]
    /\ mPc' = IF uploaded THEN "remote" ELSE "failed"
    /\ mErr' = IF uploaded THEN "none" ELSE "upload"
    /\ DropLoad
    /\ ops < MaxOps /\ ops' = ops + 1
    /\ UNCHANGED <<now, currentUser, staleWhileRevalidate, entryVars, surveyVars, dbVars>>

\* saveEntry up to the remote write: validation, image upload, newEntry
saveEntry(content, images, uploaded) ==
    /\ currentUser # NoUser
    /\ MutIdle
    /\ content # 0 \/ images # {}
    /\ uploaded \/ images # {}
    /\ mKind' = "save"
    /\ entryIndex' = 0
    /\ imgFailed' = {} /\ imgTried' = {}
    /\ mBefore' = LocalStores
    /\ mEntry' = [id |-> 0, userId |-> NoUser, content |-> content, date |-> now,
                  images |-> images, updatedAt |-> Absent]
    /\ mPc' = IF uploaded THEN "remote" ELSE "failed"
    /\ mErr' = IF uploaded THEN "none" ELSE "upload"
    /\ DropLoad
    /\ ops < MaxOps /\ ops' = ops + 1
    /\ UNCHANGED <<now, currentUser, staleWhileRevalidate, entryVars, surveyVars, dbVars>>

\* a create that would mirror the new entry into the cache before the remote
\* write has answered
saveEntryToDbCacheFirst(ok) ==
    /\ mPc = "remote" /\ mKind = "save"
    /\ Cardinality(everStored) < MaxIds
    /\ LET entryId == Cardinality(everStored) + 1
       IN /\ cache' = addToCache(cache, currentUser, [mEntry EXCEPT !.id = entryId])
          /\ mEntry' = [mEntry EXCEPT !.id = entryId]
          /\ IF ok
             THEN /\ remote' = remote \cup
                        {[mEntry EXCEPT !.id = entryId, !.userId = currentUser,
                                        !.updatedAt = now]}
                  /\ everStored' = everStored \cup {entryId}
                  /\ mPc' = "mirror"
                  /\ UNCHANGED mErr
             ELSE /\ mErr' = "remote"
                  /\ mPc' = "failed"
                  /\ UNCHANGED <<remote, everStored>>
    /\ UNCHANGED <<now, ops, currentUser, staleWhileRevalidate, lastSync, datesCache, entryDates, pagination,
                   journalEntries, loadVars, mKind, entryIndex, imgFailed, imgTried, mBefore,
                   surveyVars, dbVars>>

\* db.js saveEntry: setDoc of a new document, serverTimestamp() in updatedAt
saveEntryToDb(ok) ==
    /\ mPc = "remote" /\ mKind = "save"
    /\ IF ok
       THEN /\ Cardinality(everStored) < MaxIds
            /\ LET entryId == Cardinality(everStored) + 1
               IN /\ remote' = remote \cup
                        {[mEntry EXCEPT !.id = entryId, !.userId = currentUser,
                                        !.updatedAt = now]}
                  /\ everStored' = everStored \cup {entryId}
                  /\ mEntry' = [mEntry EXCEPT !.id = entryId]
            /\ mPc' = "mirror"
            /\ UNCHANGED mErr
       ELSE /\ mErr' = "remote"
            /\ mPc' = "failed"
            /\ UNCHANGED <<remote, everStored, mEntry>>
    /\ UNCHANGED <<now, ops, currentUser, staleWhileRevalidate, cache, lastSync, datesCache, entryDates, pagination,
                   journalEntries, loadVars, mKind, entryIndex, imgFailed, imgTried, mBefore,
                   surveyVars, dbVars>>

\* saveEntry after the remote write: addToCache, unshift, dates index
saveEntryMirror(okCache, okDates) ==
    /\ mPc = "mirror" /\ mKind = "save"
    /\ IF okCache
       THEN /\ cache' = addToCache(cache, currentUser, mEntry)
            /\ journalEntries' = <<mEntry>> \o journalEntries
            /\ entryDates' = entryDates \cup {formatDateKey(mEntry.date)}
            /\ IF okDates
               THEN /\ datesCache' = [datesCache EXCEPT ![currentUser] = entryDates']
                    /\ mPc' = "done"
                    /\ UNCHANGED mErr
               ELSE /\ mErr' = "dates"
                    /\ mPc' = "failed"
                    /\ UNCHANGED datesCache
       ELSE /\ okDates
            /\ mErr' = "cache"
            /\ mPc' = "failed"
            /\ UNCHANGED <<cache, journalEntries, entryDates, datesCache>>
    /\ UNCHANGED <<now, ops, currentUser, staleWhileRevalidate, remote, everStored, lastSync, pagination, loadVars,
                   mKind, entryIndex, mEntry, imgFailed, imgTried, mBefore, surveyVars, dbVars>>

\* saveEdit.onclick up to the remote update: validation, findIndex, updatedEntry
saveEdit(i, newContent, editImages) ==
    /\ currentUser # NoUser
    /\ MutIdle
    /\ i \in 1..Len(journalEntries)
    /\ editImages \in {journalEntries[i].images, {}}
    /\ newContent # 0 \/ editImages # {}
    /\ LET k == findIndex(journalEntries, journalEntries[i].content, journalEntries[i].date)
       IN /\ entryIndex' = k
          /\ mEntry' = [journalEntries[k] EXCEPT !.content = newContent,
                                                 !.images = editImages]
    /\ mKind' = "edit"
    /\ imgFailed' = {} /\ imgTried' = {}
    /\ mBefore' = LocalStores
    /\ mPc' = "remote"
    /\ mErr' = "none"
    /\ DropLoad
    /\ ops < MaxOps /\ ops' = ops + 1
    /\ UNCHANGED <<now, currentUser, staleWhileRevalidate, entryVars, surveyVars, dbVars>>

\* the move dialog's submit handler up to the remote update
moveEntry(i, newDate) ==
    /\ currentUser # NoUser
    /\ MutIdle
    /\ i \in 1..Len(journalEntries)
    /\ LET k == findIndex(journalEntries, journalEntries[i].content, journalEntries[i].date)
       IN /\ entryIndex' = k
          /\ mEntry' = [journalEntries[k] EXCEPT !.date = newDate]
    /\ mKind' = "move"
    /\ imgFailed' = {} /\ imgTried' = {}
    /\ mBefore' = LocalStores
    /\ mPc' = "remote"
    /\ mErr' = "none"
    /\ DropLoad
    /\ ops < MaxOps /\ ops' = ops + 1
    /\ UNCHANGED <<now, currentUser, staleWhileRevalidate, entryVars, surveyVars, dbVars>>

\* db.js updateEntry: updateDoc of the patched fields and updatedAt (it fails
\* on a missing document); then journalEntries[entryIndex] = updatedEntry
updateEntry(ok) ==
    /\ mPc = "remote" /\ mKind \in {"edit", "move"}
    /\ IF ok
       THEN /\ \E d \in remote : d.id = mEntry.id
            /\ remote' = {IF d.id # mEntry.id THEN d
                          ELSE IF mKind = "edit"
                          THEN [d EXCEPT !.content = mEntry.content,
                                         !.images = mEntry.images, !.updatedAt = now]
                          ELSE [d EXCEPT !.date = mEntry.date, !.updatedAt = now]
                          : d \in remote}
            /\ journalEntries' = IF entryIndex \in 1..Len(journalEntries)
                                 THEN [journalEntries EXCEPT ![entryIndex] = mEntry]
                                 ELSE journalEntries
            /\ mPc' = "done"
            /\ UNCHANGED mErr
       ELSE /\ mErr' = "remote"
            /\ mPc' = "failed"
            /\ UNCHANGED <<remote, journalEntries>>
    /\ UNCHANGED <<now, ops, currentUser, staleWhileRevalidate, everStored, cache, lastSync, datesCache, entryDates,
                   pagination, loadVars, mKind, entryIndex, mEntry, imgFailed, imgTried, mBefore,
                   surveyVars, dbVars>>

\* a delete that would go to the remote delete without the image loop
deleteEntryRecordFirst(i) ==
    /\ currentUser # NoUser
    /\ MutIdle
    /\ i \in 1..Len(journalEntries)
    /\ LET k == findIndex(journalEntries, journalEntries[i].content, journalEntries[i].date)
       IN /\ entryIndex' = k
          /\ mEntry' = journalEntries[k]
    /\ mPc' = "remote"
    /\ mKind' = "delete"
    /\ imgFailed' = {} /\ imgTried' = {}
    /\ mBefore' = LocalStores
    /\ mErr' = "none"
    /\ DropLoad
    /\ ops < MaxOps /\ ops' = ops + 1
    /\ UNCHANGED <<now, currentUser, staleWhileRevalidate, entryVars, surveyVars, dbVars>>

\* script.js deleteEntry up to the image loop: findIndex, entryToDelete
deleteEntry(i) ==
    /\ currentUser # NoUser
    /\ MutIdle
    /\ i \in 1..Len(journalEntries)
    /\ LET k == findIndex(journalEntries, journalEntries[i].content, journalEntries[i].date)
       IN /\ entryIndex' = k
          /\ mEntry' = journalEntries[k]
          /\ mPc' = IF journalEntries[k].images # {} THEN "images" ELSE "remote"
    /\ mKind' = "delete"
    /\ imgFailed' = {} /\ imgTried' = {}
    /\ mBefore' = LocalStores
    /\ mErr' = "none"
    /\ DropLoad
    /\ ops < MaxOps /\ ops' = ops + 1
    /\ UNCHANGED <<now, currentUser, staleWhileRevalidate, entryVars, surveyVars, dbVars>>

\* an image loop that would let a deleteImage failure reach the caller
deleteImagesThrowing(failed) ==
    /\ mPc = "images" /\ mKind = "delete"
    /\ failed \subseteq mEntry.images
    /\ imgFailed' = failed /\ imgTried' = mEntry.images
    /\ mPc' = IF failed = {} THEN "remote" ELSE "failed"
    /\ mErr' = IF failed = {} THEN mErr ELSE "image"
    /\ UNCHANGED <<now, ops, currentUser, staleWhileRevalidate, entryVars, loadVars, mKind, entryIndex, mEntry,
                   mBefore, surveyVars, dbVars>>

\* the deleteImage loop: each failure is caught inside the loop
deleteImages(failed) ==
    /\ mPc = "images" /\ mKind = "delete"
    /\ failed \subseteq mEntry.images
    /\ imgFailed' = failed /\ imgTried' = mEntry.images
    /\ mPc' = "remote"
    /\ UNCHANGED <<now, ops, currentUser, staleWhileRevalidate, entryVars, loadVars, mKind, entryIndex, mEntry, mErr,
                   mBefore, surveyVars, dbVars>>

\* a delete that would drop the cached record before the remote delete has
\* answered
deleteEntryFromDbOptimistic(ok) ==
    /\ mPc = "remote" /\ mKind = "delete"
    /\ cache' = removeFromCache(cache, mEntry.id)
    /\ IF ok
       THEN /\ remote' = {d \in remote : d.id # mEntry.id}
            /\ mPc' = "mirror"
            /\ UNCHANGED mErr
       ELSE /\ mErr' = "remote"
            /\ mPc' = "failed"
            /\ UNCHANGED remote
    /\ UNCHANGED <<now, ops, currentUser, staleWhileRevalidate, everStored, lastSync, datesCache, entryDates,
                   pagination, journalEntries, loadVars, mKind, entryIndex, mEntry,
                   imgFailed, imgTried, mBefore, surveyVars, dbVars>>

\* db.js deleteEntry: getDoc, the images of the stored record (every failure
\* caught, Promise.all awaited), then deleteDoc; a failure is one of getDoc
\* (no image touched) or of deleteDoc (the images already attempted)
deleteEntryFromDb(ok) ==
    /\ mPc = "remote" /\ mKind = "delete"
    /\ LET images == UNION {d.images : d \in {x \in remote : x.id = mEntry.id}}
       IN IF ok
          THEN /\ imgTried' = imgTried \cup images
               /\ remote' = {d \in remote : d.id # mEntry.id}
               /\ mPc' = "mirror"
               /\ UNCHANGED mErr
          ELSE /\ imgTried' \in {imgTried, imgTried \cup images}
               /\ mErr' = "remote"
               /\ mPc' = "failed"
               /\ UNCHANGED remote
    /\ UNCHANGED <<now, ops, currentUser, staleWhileRevalidate, everStored, cache, lastSync, datesCache, entryDates,
                   pagination, journalEntries, loadVars, mKind, entryIndex, mEntry,
                   imgFailed, mBefore, surveyVars, dbVars>>

\* script.js deleteEntry after the remote delete: removeFromCache, splice, and
\* the dates index, whose key is read from journalEntries[entryIndex] after the
\* splice (a TypeError when the deleted entry was the last of the list)
deleteEntryMirror(okCache, okDates) ==
    /\ mPc = "mirror" /\ mKind = "delete"
    /\ IF okCache
       THEN LET rest == splice(journalEntries, entryIndex)
            IN /\ cache' = removeFromCache(cache, mEntry.id)
               /\ journalEntries' = rest
               /\ IF entryIndex \notin 1..Len(rest)
                  THEN /\ okDates
                       /\ mErr' = "typeError"
                       /\ mPc' = "failed"
                       /\ UNCHANGED <<entryDates, datesCache>>
                  ELSE LET dateKey == formatDateKey(rest[entryIndex].date)
                           entriesOnSameDate ==
                               {j \in 1..Len(rest) : formatDateKey(rest[j].date) = dateKey}
                       IN IF Cardinality(entriesOnSameDate) = 1
                          THEN /\ entryDates' = entryDates \ {dateKey}
                               /\ IF okDates
                                  THEN /\ datesCache' =
                                            [datesCache EXCEPT ![currentUser] = entryDates']
                                       /\ mPc' = "done"
                                       /\ UNCHANGED mErr
                                  ELSE /\ mErr' = "dates"
                                       /\ mPc' = "failed"
                                       /\ UNCHANGED datesCache
                          ELSE /\ okDates
                               /\ mPc' = "done"
                               /\ UNCHANGED <<entryDates, datesCache, mErr>>
       ELSE /\ okDates
            /\ mErr' = "cache"
            /\ mPc' = "failed"
            /\ UNCHANGED <<cache, journalEntries, entryDates, datesCache>>
    /\ UNCHANGED <<now, ops, currentUser, staleWhileRevalidate, remote, everStored, lastSync, pagination, loadVars,
                   mKind, entryIndex, mEntry, imgFailed, imgTried, mBefore, surveyVars, dbVars>>

\* ------------------------------------------------------------------ surveys
NoData == [targetDate |-> Absent, version |-> 0]
SmIdle == smPc \in {"idle", "done", "failed"}
DialogOpen == smData # NoData

\* getFirebaseSurveyForDate: where userId == ..., metadata.targetDate == ...
getFirebaseSurveyForDate(docs, userId, targetDate) ==
    {d \in docs : d.userId = userId /\ d.targetDate = targetDate}

\* a cache that would hold the last survey only
cacheSurveyClearing(store, survey) ==
    {[key |-> getLocalMidnight(survey.targetDate), userId |-> survey.userId,
      version |-> survey.version]}

\* DatabaseService.cacheSurvey: put under the normalised metadata.targetDate
cacheSurvey(store, survey) ==
    LET key == getLocalMidnight(survey.targetDate)
    IN {c \in store : c.key # key} \cup
       {[key |-> key, userId |-> survey.userId, version |-> survey.version]}

\* DatabaseService.getCachedSurvey
getCachedSurvey(store, targetDate) ==
    {c \in store : c.key = getLocalMidnight(targetDate)}

\* a save that would key the draft by the date as given
saveDraftByRawKey(store, data) ==
    {d \in store : d.key # data.targetDate} \cup
    {[key |-> data.targetDate, version |-> data.version]}

\* DatabaseService.saveDraft: put under the normalised data.metadata.targetDate
saveDraft(store, data) ==
    LET key == getLocalMidnight(data.targetDate)
    IN {d \in store : d.key # key} \cup {[key |-> key, version |-> data.version]}

\* DatabaseService.loadDraft
loadDraft(store, targetDate) == {d \in store : d.key = getLocalMidnight(targetDate)}

\* a delete that would look the draft up under the date as given
deleteDraftByRawKey(store, targetDate) == {d \in store : d.key # targetDate}

\* DatabaseService.deleteDraft
deleteDraft(store, targetDate) == {d \in store : d.key # getLocalMidnight(targetDate)}

\* a lookup that would consult the draft before the remote repository
getSurveyForDateDraftFirst(draftStore, targetDate, userId) ==
    LET localTargetDate == getLocalMidnight(targetDate)
    IN IF getCachedSurvey(surveysCache, localTargetDate) # {} THEN "cache"
       ELSE IF loadDraft(draftStore, localTargetDate) # {} THEN "draft"
       ELSE IF userId # NoUser
               /\ getFirebaseSurveyForDate(remoteSurveys, userId, localTargetDate) # {}
       THEN "remote"
       ELSE "none"

\* DatabaseService.getSurveyForDate: where the record comes from
getSurveyForDate(draftStore, targetDate, userId) ==
    LET localTargetDate == getLocalMidnight(targetDate)
    IN IF getCachedSurvey(surveysCache, localTargetDate) # {} THEN "cache"
       ELSE IF userId # NoUser
               /\ getFirebaseSurveyForDate(remoteSurveys, userId, localTargetDate) # {}
       THEN "remote"
       ELSE IF loadDraft(draftStore, localTargetDate) # {} THEN "draft"
       ELSE "none"

\* DatabaseService.hasSurveyForDate: the surveysCache after the call (a remote
\* hit is cached; a failed query is caught)
hasSurveyForDate(store, targetDate, online) ==
    LET localTargetDate == getLocalMidnight(targetDate)
        hit == getFirebaseSurveyForDate(remoteSurveys, currentUser, localTargetDate)
    IN IF getCachedSurvey(store, localTargetDate) = {} /\ currentUser # NoUser
          /\ online /\ hit # {}
       THEN cacheSurvey(store, CHOOSE d \in hit : TRUE)
       ELSE store

\* SurveyManager.loadExistingData, then the data of a new form: a cached survey
\* carries no data field, a draft does
loadExistingData(draftStore, targetDate, confirmReopen) ==
    LET from == getSurveyForDate(draftStore, targetDate, NoUser)
    IN IF from = "none" \/ ~confirmReopen
       THEN [targetDate |-> targetDate, version |-> 0]
       ELSE IF from = "draft"
       THEN LET d == CHOOSE d \in loadDraft(draftStore, targetDate) : TRUE
            IN [targetDate |-> d.key, version |-> d.version]
       ELSE NoData

\* createDateInput: hasSurveyForDate of today and of yesterday
createDateInput(store, online) ==
    LET today == getLocalMidnight(now)
        afterToday == hasSurveyForDate(store, today, online)
    IN IF today >= DayLen THEN hasSurveyForDate(afterToday, today - DayLen, online)
       ELSE afterToday

\* SurveyManager.show(): createSurveyDialog(new Date())
show(confirmReopen, online) ==
    /\ SmIdle
    /\ ~DialogOpen
    /\ smData' = loadExistingData(drafts, now, confirmReopen)
    /\ surveysCache' = IF smData' # NoData THEN createDateInput(surveysCache, online)
                       ELSE surveysCache
    /\ smPc' = "idle" /\ smErr' = "none" /\ smBefore' = <<{}, {}>>
    /\ saveTimer' = FALSE
    /\ UNCHANGED <<now, ops, currentUser, staleWhileRevalidate, entryVars, loadVars, mutVars, dbVars, remoteSurveys,
                   drafts>>

\* the date input's change handler: saveDraft of the form, then the form of
\* the chosen day
changeDate(day, confirmReopen, online) ==
    /\ SmIdle /\ DialogOpen
    /\ smPc # "done"
    /\ day * DayLen <= now
    /\ drafts' = saveDraft(drafts, smData)
    /\ smData' = loadExistingData(drafts', day * DayLen, confirmReopen)
    /\ surveysCache' = IF smData' # NoData THEN createDateInput(surveysCache, online)
                       ELSE surveysCache
    /\ smPc' = "idle" /\ smErr' = "none" /\ smBefore' = <<{}, {}>>
    /\ UNCHANGED <<now, ops, currentUser, staleWhileRevalidate, entryVars, loadVars, mutVars, dbVars, remoteSurveys,
                   saveTimer>>

\* a click outside the dialog: saveDraft, dialog.remove(); after a submission
\* the dialog also removes itself (clicked = FALSE)
closeDialog(clicked) ==
    /\ SmIdle /\ DialogOpen
    /\ clicked \/ smPc = "done"
    \* a debounced save still pending fires on the same data
    /\ drafts' = IF clicked \/ saveTimer THEN saveDraft(drafts, smData) ELSE drafts
    /\ smData' = NoData
    /\ smPc' = "idle" /\ smErr' = "none" /\ smBefore' = <<{}, {}>>
    /\ saveTimer' = FALSE
    /\ UNCHANGED <<now, ops, currentUser, staleWhileRevalidate, entryVars, loadVars, mutVars, dbVars, remoteSurveys,
                   surveysCache>>

\* handleRating, handleMood, ...: a form edit, and the debounced save it arms
editForm(v) ==
    /\ SmIdle /\ DialogOpen
    /\ smPc # "done"
    /\ v # smData.version
    /\ smData' = [smData EXCEPT !.version = v]
    /\ saveTimer' = TRUE
    /\ smPc' = "idle" /\ smErr' = "none" /\ smBefore' = <<{}, {}>>
    /\ UNCHANGED <<now, ops, currentUser, staleWhileRevalidate, entryVars, loadVars, mutVars, dbVars, remoteSurveys,
                   surveysCache, drafts>>

\* the debounce timer fires: SurveyManager.saveDraft
autoSave ==
    /\ saveTimer
    /\ DialogOpen
    /\ drafts' = saveDraft(drafts, smData)
    /\ saveTimer' = FALSE
    /\ UNCHANGED <<now, ops, currentUser, staleWhileRevalidate, entryVars, loadVars, mutVars, dbVars, remoteSurveys,
                   surveysCache, smData, smPc, smErr, smBefore>>

\* SurveyManager.submitSurvey up to the write: saveSurvey's existence check
saveSurveyCheck(ok) ==
    /\ SmIdle /\ DialogOpen
    /\ smPc # "done"
    /\ smData.version # 0
    /\ currentUser # NoUser
    /\ IF ~ok
       THEN smPc' = "failed" /\ smErr' = "network"
       ELSE IF getFirebaseSurveyForDate(remoteSurveys, currentUser, smData.targetDate) # {}
       THEN smPc' = "failed" /\ smErr' = "duplicate"
       ELSE smPc' = "write" /\ smErr' = "none"
    /\ smBefore' = <<surveysCache, drafts>>
    /\ UNCHANGED <<now, ops, currentUser, staleWhileRevalidate, entryVars, loadVars, mutVars, dbVars, remoteSurveys,
                   surveysCache, drafts, smData, saveTimer>>

\* db.js saveSurvey: setDoc of a new survey document
saveSurvey(ok) ==
    /\ smPc = "write"
    /\ IF ok
       THEN /\ Cardinality(remoteSurveys) < MaxSurveys
            /\ remoteSurveys' = remoteSurveys \cup
                   {[id |-> Cardinality(remoteSurveys) + 1, userId |-> currentUser,
                     targetDate |-> smData.targetDate, version |-> smData.version]}
            /\ smPc' = "cache"
            /\ UNCHANGED smErr
       ELSE /\ smPc' = "failed" /\ smErr' = "network"
            /\ UNCHANGED remoteSurveys
    /\ UNCHANGED <<now, ops, currentUser, staleWhileRevalidate, entryVars, loadVars, mutVars, dbVars, surveysCache,
                   drafts, smData, smBefore, saveTimer>>

\* SurveyManager.submitSurvey: dbService.cacheSurvey({...this.data, targetDate})
submitCache(ok) ==
    /\ smPc = "cache"
    /\ IF ok
       THEN /\ surveysCache' = cacheSurvey(surveysCache,
                   [targetDate |-> smData.targetDate, userId |-> NoUser,
                    version |-> smData.version])
            /\ smPc' = "draft"
            /\ UNCHANGED smErr
       ELSE /\ smPc' = "failed" /\ smErr' = "cache"
            /\ UNCHANGED surveysCache
    /\ UNCHANGED <<now, ops, currentUser, staleWhileRevalidate, entryVars, loadVars, mutVars, dbVars, remoteSurveys,
                   drafts, smData, smBefore, saveTimer>>

\* SurveyManager.submitSurvey: dbService.deleteDraft, then the success message
submitDeleteDraft(ok) ==
    /\ smPc = "draft"
    /\ IF ok
       THEN /\ drafts' = deleteDraft(drafts, smData.targetDate)
            /\ smPc' = "done"
            /\ UNCHANGED smErr
       ELSE /\ smPc' = "failed" /\ smErr' = "draft"
            /\ UNCHANGED drafts
    /\ UNCHANGED <<now, ops, currentUser, staleWhileRevalidate, entryVars, loadVars, mutVars, dbVars, remoteSurveys,
                   surveysCache, smData, smBefore, saveTimer>>

\* the clock of the survey dialog
SurveyTick ==
    /\ now < MaxNow
    /\ now' = now + 1
    /\ UNCHANGED <<ops, currentUser, staleWhileRevalidate, entryVars, loadVars, mutVars, dbVars, surveyVars>>

NextSurvey ==
    \/ SurveyTick
    \/ \E c, on \in BOOLEAN : show(c, on)
    \/ \E day \in 0..(MaxNow \div DayLen), c, on \in BOOLEAN : changeDate(day, c, on)
    \/ \E v \in 1..MaxVersion : editForm(v)
    \/ autoSave
    \/ \E clicked \in BOOLEAN : closeDialog(clicked)
    \/ \E ok \in BOOLEAN : saveSurveyCheck(ok)
    \/ \E ok \in BOOLEAN : saveSurvey(ok)
    \/ \E ok \in BOOLEAN : submitCache(ok)
    \/ \E ok \in BOOLEAN : submitDeleteDraft(ok)

\* the survey dialog on its own: no journal entries
InitSurvey == Init /\ remote = {}

SpecSurvey == InitSurvey /\ [][NextSurvey]_vars

Next ==
    \/ Tick
    \/ \E o \in {"ok", "openFail", "readFail"} : MutIdle /\ loadEntries(o)
    \/ \E ok \in BOOLEAN : getLastSyncTime(ok)
    \/ \E ok \in BOOLEAN : fetchQuery(ok)
    \/ \E ok \in BOOLEAN : fetchMerge(ok)
    \/ \E c \in Contents, im \in ImageSets, up \in BOOLEAN : LoadIdle /\ saveEntry(c, im, up)
    \/ \E ok \in BOOLEAN : saveEntryToDb(ok)
    \/ \E okCache, okDates \in BOOLEAN : saveEntryMirror(okCache, okDates)
    \/ \E i \in Ids, c \in Contents, im \in ImageSets : LoadIdle /\ saveEdit(i, c, im)
    \/ \E i \in Ids, d \in Times : LoadIdle /\ moveEntry(i, d)
    \/ \E ok \in BOOLEAN : updateEntry(ok)
    \/ \E i \in Ids : LoadIdle /\ deleteEntry(i)
    \/ \E f \in SUBSET Images : deleteImages(f)
    \/ \E ok \in BOOLEAN : deleteEntryFromDb(ok)
    \/ \E okCache, okDates \in BOOLEAN : deleteEntryMirror(okCache, okDates)

Spec == Init /\ [][Next]_vars

\* ------------------------------------------------- the merge, applied twice
\* lists of entries of the user with distinct ids, any order, any dates
EntryLists(updatedAt) ==
    LET recs == {[id |-> i, userId |-> "u1", content |-> 1, date |-> d,
                  images |-> {}, updatedAt |-> updatedAt] :
                     i \in Ids, d \in 0..1}
        lists == UNION {[1..k -> recs] : k \in 0..MaxIds}
    IN {l \in lists : Cardinality(IdsOf(l)) = Len(l)}

\* a cached list and the result of a delta query
mergeInputs(C, D) ==
    /\ lPc = "idle" /\ MutIdle
    /\ cachedEntries' = C
    /\ fEntries' = D
    /\ lPc' = "inputs"
    /\ UNCHANGED <<now, ops, currentUser, staleWhileRevalidate, entryVars, isStale, fLastSync, fErr, lBefore, lOther, lReturned,
                   mutVars, surveyVars, dbVars>>

\* the merge of fetchAndMergeUpdates
mergeOnce ==
    /\ lPc = "inputs"
    /\ journalEntries' = mergeUpdates(cachedEntries, fEntries)
    /\ lPc' = "once"
    /\ UNCHANGED <<now, ops, currentUser, staleWhileRevalidate, remote, everStored, cache, lastSync, datesCache,
                   entryDates, pagination, cachedEntries, isStale, fLastSync, fEntries,
                   fErr, lBefore, lOther, lReturned, mutVars, surveyVars, dbVars>>

\* the merged list is the cached list of the next fetch, which returns the
\* same entries
mergeAgain ==
    /\ lPc = "once"
    /\ cachedEntries' = journalEntries
    /\ journalEntries' = mergeUpdates(journalEntries, fEntries)
    /\ lPc' = "twice"
    /\ UNCHANGED <<now, ops, currentUser, staleWhileRevalidate, remote, everStored, cache, lastSync, datesCache,
                   entryDates, pagination, isStale, fLastSync, fEntries, fErr, lBefore, lOther, lReturned,
                   mutVars, surveyVars, dbVars>>

NextMerge ==
    \/ \E C \in EntryLists(0), D \in EntryLists(1) : mergeInputs(C, D)
    \/ mergeOnce
    \/ mergeAgain

SpecMerge == InitSurvey /\ [][NextMerge]_vars

\* ----------------------------------------------- the writers of the remote
\* migrateLocalStorageToFirebase, one entry of its loop: saveEntryToDb of an
\* entry that the localStorage version of the journal had stored, which took
\* an entry only with content or images (src/script.js 704-705, 616-617).  It
\* runs at sign-in, before the first load.
migrateLocalStorageToFirebase(content, images, date) ==
    /\ currentUser # NoUser
    /\ ops = 0 /\ lPc = "idle" /\ mPc = "idle"
    /\ content # 0 \/ images # {}
    /\ date <= now
    /\ Cardinality(everStored) < MaxIds
    /\ LET entryId == Cardinality(everStored) + 1
       IN /\ remote' = remote \cup
                 {[id |-> entryId, userId |-> currentUser, content |-> content,
                   date |-> date, images |-> images, updatedAt |-> now]}
          /\ everStored' = everStored \cup {entryId}
    /\ UNCHANGED <<now, ops, currentUser, staleWhileRevalidate, cache, lastSync, datesCache, entryDates,
                   pagination, journalEntries, loadVars, mutVars, surveyVars, dbVars>>

NextWrites ==
    \/ \E c \in Contents, im \in ImageSets, d \in Times :
           migrateLocalStorageToFirebase(c, im, d)
    \/ \E c \in Contents, im \in ImageSets, up \in BOOLEAN : LoadIdle /\ saveEntry(c, im, up)
    \/ \E ok \in BOOLEAN : saveEntryToDb(ok)
    \/ \E okCache, okDates \in BOOLEAN : saveEntryMirror(okCache, okDates)
    \/ \E i \in Ids, c \in Contents, im \in ImageSets : LoadIdle /\ saveEdit(i, c, im)
    \/ \E ok \in BOOLEAN : updateEntry(ok)

SpecWrites == InitSurvey /\ [][NextWrites]_vars

\* ------------------------------------------- a create during a load's fetch
\* saveEntry is a click handler and fetchAndMergeUpdates runs from a timer or
\* behind awaits: nothing keeps the steps of the two flows apart
NextRace ==
    \/ Tick
    \/ (MutIdle /\ loadEntries("ok"))
    \/ \E ok \in BOOLEAN : getLastSyncTime(ok)
    \/ \E ok \in BOOLEAN : fetchQuery(ok)
    \/ \E ok \in BOOLEAN : fetchMerge(ok)
    \/ \E c \in Contents, im \in ImageSets, up \in BOOLEAN : saveEntry(c, im, up)
    \/ \E ok \in BOOLEAN : saveEntryToDb(ok)
    \/ \E okCache, okDates \in BOOLEAN : saveEntryMirror(okCache, okDates)

SpecRace == Init /\ [][NextRace]_vars

\* --------------------------------------- the signed-in user changes mid-load
\* the onAuthChange handler while a load sits between its cache read and the
\* call fetchAndMergeUpdates(currentUser.uid, cachedEntries), the one scheduled
\* with setTimeout included: currentUser = user, and a sign-out clears the list
onAuthChange(user) ==
    /\ lPc \in {"fetch", "background"}
    /\ MutIdle
    /\ user # currentUser
    /\ currentUser' = user
    /\ journalEntries' = IF user = NoUser THEN <<>> ELSE journalEntries
    /\ UNCHANGED <<now, ops, staleWhileRevalidate, remote, everStored, cache, lastSync, datesCache, entryDates,
                   pagination, loadVars, mutVars, surveyVars, dbVars>>

\* currentUser.uid with currentUser null: a TypeError, caught by loadEntries'
\* catch on the awaited path and by nothing in the setTimeout callback
fetchNullUser ==
    /\ lPc \in {"fetch", "background"}
    /\ currentUser = NoUser
    /\ fErr' = "nullUser"
    /\ lPc' = "failed"
    /\ journalEntries' = IF lPc = "fetch" THEN <<>> ELSE journalEntries
    /\ lReturned' = TRUE
    /\ UNCHANGED <<now, ops, currentUser, staleWhileRevalidate, remote, everStored, cache, lastSync, datesCache,
                   entryDates, pagination, cachedEntries, isStale, fLastSync, fEntries,
                   lBefore, lOther, mutVars, surveyVars, dbVars>>

NextAuth ==
    \/ (MutIdle /\ loadEntries("ok"))
    \/ \E user \in Users \cup {NoUser} : onAuthChange(user)
    \/ fetchNullUser
    \/ \E ok \in BOOLEAN : getLastSyncTime(ok)
    \/ \E ok \in BOOLEAN : fetchQuery(ok)
    \/ \E ok \in BOOLEAN : fetchMerge(ok)
    \/ \E c \in Contents, im \in ImageSets, up \in BOOLEAN : saveEntry(c, im, up)
    \/ \E ok \in BOOLEAN : saveEntryToDb(ok)
    \/ \E okCache, okDates \in BOOLEAN : saveEntryMirror(okCache, okDates)

SpecAuth == Init /\ [][NextAuth]_vars

\* ----------------------------------------------------------- loadMoreEntries
\* PAGINATION_CONFIG.isLoading, true between the first line of the try and the
\* finally of loadMoreEntries
isLoading == lPc \in {"moreQuery", "moreCache"}

\* loadMoreEntries (the scroll handler) up to the await of getUserEntries
loadMoreEntries ==
    /\ currentUser # NoUser
    /\ LoadIdle /\ MutIdle
    /\ pagination.hasMore
    /\ lPc' = "moreQuery"
    /\ cachedEntries' = <<>> /\ isStale' = FALSE /\ fLastSync' = NoSync
    /\ fEntries' = <<>> /\ fErr' = "none"
    /\ lBefore' = <<cache, lastSync>> /\ lReturned' = FALSE
    /\ DropMut
    /\ ops < MaxOps /\ ops' = ops + 1
    /\ UNCHANGED <<now, currentUser, staleWhileRevalidate, entryVars, lOther, surveyVars, dbVars>>

\* getUserEntries(uid, {limit, startAfter: lastVisible}) and the update of the
\* cursor.  With a cursor, db.js calls startAfter(startAfter) on its own option
\* of that name, which is the snapshot and not the imported function: a
\* TypeError.  Without one the query is the first page again.
loadMoreQuery(ok) ==
    /\ lPc = "moreQuery"
    /\ IF pagination.lastVisible # 0
       THEN /\ ok
            /\ fErr' = "startAfter" /\ lPc' = "failed"
            /\ UNCHANGED <<fEntries, pagination>>
       ELSE IF ~ok
       THEN /\ fErr' = "query" /\ lPc' = "failed"
            /\ UNCHANGED <<fEntries, pagination>>
       ELSE LET r == getUserEntries(remote, currentUser, NoSync, PageSize)
            IN /\ fEntries' = r.entries
               /\ pagination' = [lastVisible |-> r.lastVisible, hasMore |-> r.hasMore]
               /\ lPc' = "moreCache"
               /\ UNCHANGED fErr
    /\ lReturned' = (lPc' = "failed")
    /\ UNCHANGED <<now, ops, currentUser, staleWhileRevalidate, remote, everStored, cache, lastSync, datesCache,
                   entryDates, journalEntries, cachedEntries, isStale, fLastSync, lBefore,
                   lOther, mutVars, surveyVars, dbVars>>

\* await addToCache(currentUser.uid, entries): addToCache takes one entry and
\* reads entry.date.toISOString(); entries is the array of the page, so the
\* promise rejects and journalEntries.push(...entries) is not reached
loadMoreAddToCache ==
    /\ lPc = "moreCache"
    /\ fErr' = "addToCache"
    /\ lPc' = "failed"
    /\ lReturned' = TRUE
    /\ UNCHANGED <<now, ops, currentUser, staleWhileRevalidate, entryVars, cachedEntries, isStale, fLastSync,
                   fEntries, lBefore, lOther, mutVars, surveyVars, dbVars>>

NextMore ==
    \/ (MutIdle /\ loadEntries("ok"))
    \/ \E ok \in BOOLEAN : getLastSyncTime(ok)
    \/ \E ok \in BOOLEAN : fetchQuery(ok)
    \/ \E ok \in BOOLEAN : fetchMerge(ok)
    \/ loadMoreEntries
    \/ \E ok \in BOOLEAN : loadMoreQuery(ok)
    \/ loadMoreAddToCache

SpecMore == Init /\ [][NextMore]_vars

\* ------------------------------------------- either setting of the cache
\* CACHE_CONFIG.staleWhileRevalidate as a deployment sets it
InitConfig == InitStores /\ staleWhileRevalidate \in BOOLEAN

NextConfig ==
    \/ Tick
    \/ (MutIdle /\ loadEntries("ok"))
    \/ \E ok \in BOOLEAN : getLastSyncTime(ok)
    \/ \E ok \in BOOLEAN : fetchQuery(ok)
    \/ \E ok \in BOOLEAN : fetchMerge(ok)
    \/ \E c \in Contents : LoadIdle /\ saveEntry(c, {}, TRUE)
    \/ \E ok \in BOOLEAN : saveEntryToDb(ok)
    \/ saveEntryMirror(TRUE, TRUE)

SpecConfig == InitConfig /\ [][NextConfig]_vars

\* ------------------------------------------------- two loads at the same time
LoadInFlight(pc) == pc \in {"fetch", "background", "query", "merge"}

\* a loadEntries call is at an await and the event loop turns to the other
\* call (or to the onAuthChange handler that will make it): the locals of the
\* two calls change places
resumeOther ==
    /\ LoadInFlight(lPc) \/ LoadInFlight(lOther.lPc)
    /\ lOther' = [lPc |-> lPc, cachedEntries |-> cachedEntries, isStale |-> isStale,
                  fLastSync |-> fLastSync, fEntries |-> fEntries, fErr |-> fErr,
                  lBefore |-> lBefore, lReturned |-> lReturned]
    /\ lPc' = lOther.lPc
    /\ cachedEntries' = lOther.cachedEntries
    /\ isStale' = lOther.isStale
    /\ fLastSync' = lOther.fLastSync
    /\ fEntries' = lOther.fEntries
    /\ fErr' = lOther.fErr
    /\ lBefore' = lOther.lBefore
    /\ lReturned' = lOther.lReturned
    /\ UNCHANGED <<now, ops, currentUser, staleWhileRevalidate, entryVars, mutVars, surveyVars, dbVars>>

\* the clock, between two groups of loads
loadsTick ==
    /\ ~LoadInFlight(lOther.lPc)
    /\ Tick

NextLoads ==
    \/ loadsTick
    \/ \E o \in {"ok", "openFail", "readFail"} : MutIdle /\ loadEntries(o)
    \/ \E ok \in BOOLEAN : getLastSyncTime(ok)
    \/ \E ok \in BOOLEAN : fetchQuery(ok)
    \/ \E ok \in BOOLEAN : fetchMerge(ok)
    \/ resumeOther

SpecLoads == Init /\ [][NextLoads]_vars

\* ------------------------------------------ DatabaseService, called directly
DbIdle == dbPc = "idle"
Stores == <<surveysCache, drafts, surveysStore>>
DraftVersions == 0..MaxVersion

\* draftStore.getAll(): the drafts in key order
RECURSIVE draftsGetAll(_)
draftsGetAll(S) ==
    IF S = {} THEN <<>>
    ELSE LET x == CHOOSE x \in S : \A y \in S \ {x} : x.key < y.key
         IN <<x>> \o draftsGetAll(S \ {x})

\* db.js getUserSurveys(userId, {startDate, endDate}): the first pageSize
\* surveys of the user by metadata.targetDate descending (the range of the
\* callers, the last 180 days, covers every date of the model)
getUserSurveys(docs, userId, pageSize) ==
    LET own == {d \in docs : d.userId = userId}
    IN {d \in own : Cardinality({e \in own : e.targetDate > d.targetDate}) < pageSize}

\* syncSurveysFromFirebase: cacheSurvey of each survey of getUserSurveys, which
\* orders them by metadata.targetDate descending
RECURSIVE cacheSurveys(_, _)
cacheSurveys(store, docs) ==
    IF docs = {} THEN store
    ELSE LET d == CHOOSE d \in docs : \A e \in docs \ {d} : e.targetDate < d.targetDate
         IN cacheSurveys(cacheSurvey(store, d), docs \ {d})

\* cleanupOldDrafts: survey && survey.status === 'completed'
completedWithoutStatus(survey) == TRUE

completed(survey) == "status" \in DOMAIN survey /\ survey.status = "completed"

\* db.js saveSurvey called by another session of the same user
remoteSaveSurvey(targetDate, version) ==
    /\ currentUser # NoUser
    /\ Cardinality(remoteSurveys) < MaxSurveys
    /\ getFirebaseSurveyForDate(remoteSurveys, currentUser, targetDate) = {}
    /\ remoteSurveys' = remoteSurveys \cup
           {[id |-> Cardinality(remoteSurveys) + 1, userId |-> currentUser,
             targetDate |-> targetDate, version |-> version]}
    /\ UNCHANGED <<now, ops, currentUser, staleWhileRevalidate, entryVars, loadVars, mutVars, surveysCache,
                   drafts, smData, smPc, smErr, smBefore, saveTimer, dbVars>>

\* dbService.saveDraft({data}), also while cleanupOldDrafts is between two awaits
dbSaveDraft(targetDate, version) ==
    /\ dbPc \in {"idle", "cleanup"}
    /\ ops < MaxOps
    /\ ops' = ops + 1
    /\ drafts' = saveDraft(drafts, [targetDate |-> targetDate, version |-> version])
    /\ IF DbIdle
       THEN /\ dbRes' = [NoRes EXCEPT !.op = "saveDraft", !.targetDate = targetDate,
                                      !.version = version]
            /\ dbBefore' = Stores
            /\ UNCHANGED dbSaved
       ELSE /\ dbSaved' = saveDraft(dbSaved, [targetDate |-> targetDate,
                                              version |-> version])
            /\ UNCHANGED <<dbRes, dbBefore>>
    /\ UNCHANGED <<now, currentUser, staleWhileRevalidate, entryVars, loadVars, mutVars, remoteSurveys,
                   surveysCache, smData, smPc, smErr, smBefore, saveTimer, surveysStore,
                   dbPc, clDrafts>>

\* dbService.getSurveyForDate(targetDate, userId)
dbGetSurveyForDate(targetDate, userId, ok) ==
    /\ DbIdle
    /\ ops < MaxOps
    /\ ops' = ops + 1
    /\ dbBefore' = Stores
    /\ LET localTargetDate == getLocalMidnight(targetDate)
           from == getSurveyForDate(drafts, targetDate, userId)
           remoteCalled == getCachedSurvey(surveysCache, localTargetDate) = {}
                           /\ userId # NoUser
           found == IF from = "cache" THEN getCachedSurvey(surveysCache, localTargetDate)
                    ELSE IF from = "remote"
                    THEN getFirebaseSurveyForDate(remoteSurveys, userId, localTargetDate)
                    ELSE loadDraft(drafts, localTargetDate)
       IN IF remoteCalled /\ ~ok
          THEN /\ dbRes' = [NoRes EXCEPT !.op = "getSurveyForDate",
                                         !.targetDate = targetDate, !.userId = userId,
                                         !.remoteCalled = TRUE, !.err = "query"]
               /\ UNCHANGED surveysCache
          ELSE /\ dbRes' = [op |-> "getSurveyForDate", targetDate |-> targetDate,
                            userId |-> userId, from |-> from,
                            status |-> IF from = "draft" THEN "draft" ELSE "none",
                            version |-> IF from = "none" THEN 0
                                        ELSE (CHOOSE r \in found : TRUE).version,
                            remoteCalled |-> remoteCalled,
                            exists |-> from # "none", err |-> "none"]
               /\ surveysCache' = IF from = "remote"
                                  THEN cacheSurvey(surveysCache, CHOOSE r \in found : TRUE)
                                  ELSE surveysCache
    /\ UNCHANGED <<now, currentUser, staleWhileRevalidate, entryVars, loadVars, mutVars, remoteSurveys, drafts,
                   smData, smPc, smErr, smBefore, saveTimer, surveysStore, dbPc,
                   clDrafts, dbSaved>>

\* dbService.hasSurveyForDate(targetDate)
dbHasSurveyForDate(targetDate, online) ==
    /\ DbIdle
    /\ ops < MaxOps
    /\ ops' = ops + 1
    /\ dbBefore' = Stores
    /\ LET localTargetDate == getLocalMidnight(targetDate)
           result == getCachedSurvey(surveysCache, localTargetDate) # {}
           remoteCalled == ~result /\ currentUser # NoUser
           exists == getFirebaseSurveyForDate(remoteSurveys, currentUser,
                                              localTargetDate) # {}
       IN /\ surveysCache' = hasSurveyForDate(surveysCache, targetDate, online)
          /\ dbRes' = [NoRes EXCEPT
                 !.op = "hasSurveyForDate", !.targetDate = targetDate,
                 !.userId = currentUser,
                 !.from = IF result THEN "cache"
                          ELSE IF remoteCalled /\ online /\ exists THEN "remote"
                          ELSE "none",
                 !.remoteCalled = remoteCalled,
                 !.exists = result \/ (remoteCalled /\ online /\ exists),
                 !.err = IF remoteCalled /\ ~online THEN "query" ELSE "none"]
    /\ UNCHANGED <<now, currentUser, staleWhileRevalidate, entryVars, loadVars, mutVars, remoteSurveys, drafts,
                   smData, smPc, smErr, smBefore, saveTimer, surveysStore, dbPc,
                   clDrafts, dbSaved>>

\* dbService.submitSurvey(data): the transaction on surveys and drafts
dbSubmitSurvey(targetDate, version) ==
    /\ DbIdle
    /\ ops < MaxOps
    /\ ops' = ops + 1
    /\ Cardinality(surveysStore) < MaxSurveys
    /\ dbBefore' = Stores
    /\ surveysStore' = surveysStore \cup
           {[id |-> Cardinality(surveysStore) + 1, key |-> getLocalMidnight(targetDate),
             version |-> version, status |-> "completed"]}
    /\ drafts' = deleteDraft(drafts, targetDate)
    /\ dbPc' = "submitRemote"
    /\ dbRes' = [NoRes EXCEPT !.op = "submitSurvey", !.targetDate = targetDate,
                              !.version = version]
    /\ UNCHANGED <<now, currentUser, staleWhileRevalidate, entryVars, loadVars, mutVars, remoteSurveys,
                   surveysCache, smData, smPc, smErr, smBefore, saveTimer, clDrafts,
                   dbSaved>>

\* dbService.submitSurvey: saveSurvey(currentUser.uid, {...survey, userId}); the
\* argument carries its metadata under data, so saveSurvey throws on
\* survey.metadata.targetDate before it queries
dbSubmitSurveyRemote ==
    /\ dbPc = "submitRemote"
    /\ dbPc' = "idle"
    /\ dbRes' = [dbRes EXCEPT !.remoteCalled = currentUser # NoUser,
                              !.err = IF currentUser # NoUser THEN "saveSurvey"
                                      ELSE "none"]
    /\ UNCHANGED <<now, ops, currentUser, staleWhileRevalidate, entryVars, loadVars, mutVars, surveyVars,
                   surveysStore, dbBefore, clDrafts, dbSaved>>

\* dbService.syncSurveysFromFirebase(userId)
syncSurveysFromFirebase(ok) ==
    /\ DbIdle
    /\ currentUser # NoUser
    /\ ops < MaxOps
    /\ ops' = ops + 1
    /\ dbBefore' = Stores
    /\ IF ok
       THEN /\ surveysCache' = cacheSurveys(surveysCache,
                   getUserSurveys(remoteSurveys, currentUser, SurveyLimit))
            /\ dbRes' = [NoRes EXCEPT !.op = "syncSurveysFromFirebase",
                                      !.userId = currentUser, !.remoteCalled = TRUE]
       ELSE /\ dbRes' = [NoRes EXCEPT !.op = "syncSurveysFromFirebase",
                                      !.userId = currentUser, !.remoteCalled = TRUE,
                                      !.err = "query"]
            /\ UNCHANGED surveysCache
    /\ UNCHANGED <<now, currentUser, staleWhileRevalidate, entryVars, loadVars, mutVars, remoteSurveys, drafts,
                   smData, smPc, smErr, smBefore, saveTimer, surveysStore, dbPc,
                   clDrafts, dbSaved>>

\* dbService.cleanupOldDrafts(): draftStore.getAll()
cleanupOldDrafts ==
    /\ DbIdle
    /\ ops < MaxOps
    /\ ops' = ops + 1
    /\ dbBefore' = Stores
    /\ clDrafts' = draftsGetAll(drafts)
    /\ dbSaved' = {}
    /\ dbPc' = "cleanup"
    /\ dbRes' = [NoRes EXCEPT !.op = "cleanupOldDrafts"]
    /\ UNCHANGED <<now, currentUser, staleWhileRevalidate, entryVars, loadVars, mutVars, surveyVars,
                   surveysStore>>

\* cleanupOldDrafts, one draft of the loop: getCachedSurvey in a transaction of
\* its own; by the time it answers the transaction of getAll has committed, so
\* a draftStore.delete on it throws
cleanupNextDraft ==
    /\ dbPc = "cleanup"
    /\ clDrafts # <<>>
    /\ LET targetDate == Head(clDrafts).key
           survey == getCachedSurvey(surveysCache, targetDate)
       IN IF survey # {} /\ completed(CHOOSE c \in survey : TRUE)
          THEN /\ dbPc' = "idle"
               /\ dbRes' = [dbRes EXCEPT !.err = "TransactionInactiveError"]
               /\ clDrafts' = <<>>
          ELSE /\ clDrafts' = Tail(clDrafts)
               /\ UNCHANGED <<dbPc, dbRes>>
    /\ UNCHANGED <<now, ops, currentUser, staleWhileRevalidate, entryVars, loadVars, mutVars, surveyVars,
                   surveysStore, dbBefore, dbSaved>>

\* cleanupOldDrafts: the loop is over, resolve()
cleanupResolve ==
    /\ dbPc = "cleanup"
    /\ clDrafts = <<>>
    /\ dbPc' = "idle"
    /\ UNCHANGED <<now, ops, currentUser, staleWhileRevalidate, entryVars, loadVars, mutVars, surveyVars,
                   surveysStore, dbRes, dbBefore, clDrafts, dbSaved>>

NextStore ==
    \/ \E t \in Times, v \in 1..MaxVersion : remoteSaveSurvey(t, v)
    \/ \E t \in Times, v \in DraftVersions : dbSaveDraft(t, v)
    \/ \E t \in Times, u \in Users \cup {NoUser}, ok \in BOOLEAN :
           dbGetSurveyForDate(t, u, ok)
    \/ \E t \in Times, on \in BOOLEAN : dbHasSurveyForDate(t, on)
    \/ \E t \in Times, v \in 1..MaxVersion : dbSubmitSurvey(t, v)
    \/ dbSubmitSurveyRemote
    \/ \E ok \in BOOLEAN : syncSurveysFromFirebase(ok)
    \/ cleanupOldDrafts
    \/ cleanupNextDraft
    \/ cleanupResolve

SpecStore == InitSurvey /\ [][NextStore]_vars

\* ------------------------------------- two saveSurvey calls at the same time
\* a second caller of db.js saveSurvey (another tab or device of the user),
\* up to the answer of its existence check
secondSaveSurveyCheck(targetDate, version, ok) ==
    /\ DbIdle
    /\ currentUser # NoUser
    /\ targetDate <= now
    /\ dbBefore' = Stores
    /\ LET existingSurvey == getFirebaseSurveyForDate(remoteSurveys, currentUser, targetDate)
           call == [NoRes EXCEPT !.op = "saveSurvey", !.targetDate = targetDate,
                                 !.userId = currentUser, !.version = version,
                                 !.remoteCalled = TRUE]
       IN IF ~ok
          THEN dbPc' = "idle" /\ dbRes' = [call EXCEPT !.err = "network"]
          ELSE IF existingSurvey # {}
          THEN dbPc' = "idle" /\ dbRes' = [call EXCEPT !.err = "duplicate"]
          ELSE dbPc' = "setDoc" /\ dbRes' = call
    /\ UNCHANGED <<now, ops, currentUser, staleWhileRevalidate, entryVars, loadVars, mutVars, surveyVars,
                   surveysStore, clDrafts, dbSaved>>

\* the second caller's setDoc of a new survey document
secondSaveSurveySetDoc(ok) ==
    /\ dbPc = "setDoc"
    /\ dbPc' = "idle"
    /\ IF ok
       THEN /\ Cardinality(remoteSurveys) < MaxSurveys
            /\ remoteSurveys' = remoteSurveys \cup
                   {[id |-> Cardinality(remoteSurveys) + 1, userId |-> dbRes.userId,
                     targetDate |-> dbRes.targetDate, version |-> dbRes.version]}
            /\ dbRes' = [dbRes EXCEPT !.status = "completed"]
       ELSE /\ dbRes' = [dbRes EXCEPT !.err = "network"]
            /\ UNCHANGED remoteSurveys
    /\ UNCHANGED <<now, ops, currentUser, staleWhileRevalidate, entryVars, loadVars, mutVars, surveysCache, drafts,
                   smData, smPc, smErr, smBefore, saveTimer, surveysStore, dbBefore,
                   clDrafts, dbSaved>>

NextTwoSaves ==
    \/ SurveyTick
    \/ \E c, on \in BOOLEAN : show(c, on)
    \/ \E v \in 1..MaxVersion : editForm(v)
    \/ \E ok \in BOOLEAN : saveSurveyCheck(ok)
    \/ \E ok \in BOOLEAN : saveSurvey(ok)
    \/ \E t \in Times, v \in 1..MaxVersion, ok \in BOOLEAN : secondSaveSurveyCheck(t, v, ok)
    \/ \E ok \in BOOLEAN : secondSaveSurveySetDoc(ok)

SpecTwoSaves == InitSurvey /\ [][NextTwoSaves]_vars

\* ------------------------------------------- two users on the same device
\* a sign-out followed by the sign-in of another account: currentUser changes,
\* the stores of DatabaseService are left as they are
signInAs(user) ==
    /\ DbIdle
    /\ user # currentUser
    /\ currentUser' = user
    /\ UNCHANGED <<now, ops, staleWhileRevalidate, entryVars, loadVars, mutVars, surveyVars, dbVars>>

\* the account whose session writes the drafts
DraftAuthor == "u1"

NextUsers ==
    \/ \E user \in Users : signInAs(user)
    \/ \E t \in 0..now, v \in 1..MaxVersion : remoteSaveSurvey(t, v)
    \/ \E t \in 0..now, v \in DraftVersions : currentUser = DraftAuthor /\ dbSaveDraft(t, v)
    \/ \E t \in 0..now, ok \in BOOLEAN : dbGetSurveyForDate(t, currentUser, ok)
    \/ \E t \in 0..now, on \in BOOLEAN : dbHasSurveyForDate(t, on)

SpecUsers == InitSurvey /\ [][NextUsers]_vars

\* -------------------------------------------------------------- properties
CacheIds == {e.id : e \in cache}
RemoteIds == {d.id : d \in remote}
UserCache == {e \in cache : e.userId = currentUser}

\* C1: when the remote step of an entry mutation (upload, write, update or
\* delete) fails, the entries cache, the sync watermark, the dates store and
\* the entry-date index are exactly as they were when the handler was called.
C1_RemoteFailureLeavesLocalStores ==
    (mPc = "failed" /\ mErr \in {"upload", "remote"}) => LocalStores = mBefore

C1_Witness ==
    /\ mPc = "failed" /\ mErr = "remote"
    /\ mEntry.id \in CacheIds
    /\ lastSync[currentUser] # NoSync

\* C2: every id in the local entries cache is the id of a document the remote
\* repository accepted earlier; the cache write of a create comes after its
\* remote write.
C2_CacheOnlyHoldsStoredIds ==
    /\ CacheIds \subseteq everStored
    /\ (mKind = "save" /\ mPc = "remote") => mEntry.id \notin CacheIds

C2_Witness ==
    /\ mKind = "save" /\ mPc = "done"
    /\ mEntry.id \in CacheIds
    /\ mEntry.id \in RemoteIds

\* C3: after a delta fetch that returned records D for a cached list C, the
\* merged list holds every record of D and every record of C whose id is not in
\* D, nothing else, no id twice, newest first; and the user's records in the
\* local cache are exactly the records of the merged list.
C3_MergedSetIsPersisted ==
    (lPc = "done" /\ fErr = "none" /\ Len(fEntries) > 0 /\ Len(cachedEntries) > 0) =>
        LET merged == journalEntries
            kept == {c \in Range(cachedEntries) : c.id \notin IdsOf(fEntries)}
        IN /\ Range(merged) = Range(fEntries) \cup kept
           /\ Cardinality(IdsOf(merged)) = Len(merged)
           /\ \A i \in 1..(Len(merged) - 1) : merged[i].date >= merged[i + 1].date
           /\ UserCache = Range(merged)

\* C4: after a load that started from an empty cache with no watermark and
\* ended without error, the cache holds every remote entry of the user.
C4_ColdStartFetchesAllPages ==
    (lPc = "done" /\ fErr = "none" /\ cachedEntries = <<>> /\ fLastSync = NoSync) =>
        {e.id : e \in UserCache} = {d.id : d \in {x \in remote : x.userId = currentUser}}

\* C5: a load that read a non-empty, valid cache issues no remote query.
C5_ValidCacheNoRemoteQuery ==
    (Len(cachedEntries) > 0 /\ ~isStale) => lPc \notin {"query", "merge"}

\* C6: the watermark changes only in the step that commits the persist of the
\* merged entries, that step always sets it (to the time of the persist), and
\* a failed fetch or a failed cache write leaves it as it was.
PersistCommits ==
    /\ lPc = "merge" /\ Len(fEntries) > 0
    /\ lPc' = "done" /\ fErr' = "none"
    /\ cache' = updateCache(cache, currentUser, mergeUpdates(cachedEntries, fEntries))

C6_WatermarkMovesWithPersist ==
    [][/\ lastSync' # lastSync => PersistCommits
       /\ PersistCommits => lastSync' = [lastSync EXCEPT ![currentUser] = now]
       /\ (fErr' # "none" /\ fErr = "none") => lastSync' = lastSync]_vars

C6_Witness ==
    /\ lPc = "done" /\ fErr = "cacheWrite"
    /\ lastSync[currentUser] # NoSync
    /\ lastSync[currentUser] < now

\* C7: the remote repository holds at most one survey per user and local
\* calendar day.
C7_OneSurveyPerDay ==
    \A a, b \in remoteSurveys :
        (a.userId = b.userId
         /\ getLocalMidnight(a.targetDate) = getLocalMidnight(b.targetDate)) => a = b

C9_EditOverwritesCache ==
    (mPc = "done" /\ mKind \in {"edit", "move"}
     /\ \E e \in mBefore[1] : e.id = mEntry.id) =>
        \E e \in cache : /\ e.id = mEntry.id
                         /\ e.content = mEntry.content
                         /\ e.images = mEntry.images
                         /\ e.date = mEntry.date

\* C10: whichever image deletions fail, a delete of an entry with images goes
\* on to the remote delete and the cache removal, and no failure of the call
\* is an image failure.
C10_ImageFailuresDoNotBlockDelete ==
    (mKind = "delete" /\ mEntry.images # {}) =>
        /\ mPc = "failed" => mErr \in {"remote", "cache", "dates", "typeError"}
        /\ (mPc \in {"mirror", "done"} \/ (mPc = "failed" /\ mErr # "remote")) =>
               mEntry.id \notin RemoteIds
        /\ (mPc = "done" \/ (mPc = "failed" /\ mErr \in {"dates", "typeError"})) =>
               mEntry.id \notin CacheIds

C10_Witness ==
    /\ mKind = "delete" /\ mPc = "done"
    /\ imgFailed # {} /\ imgFailed # mEntry.images
    /\ \E e \in mBefore[1] : e.id = mEntry.id
    /\ mEntry.id \notin CacheIds /\ mEntry.id \notin RemoteIds

\* C11: when the remote query of a load fails, the entries store and the
\* watermark are as they were when load was called, and the displayed list
\* holds the entries the load read from the cache.
C11_FailedQueryKeepsCache ==
    (lPc = "done" /\ fErr = "query") =>
        /\ <<cache, lastSync>> = lBefore
        /\ Len(cachedEntries) > 0 => journalEntries = cachedEntries

C11_Witness ==
    /\ lPc = "done" /\ fErr = "query"
    /\ Len(cachedEntries) > 1
    /\ journalEntries = cachedEntries

\* C12: merging a delta result into a cached list and then merging the same
\* delta result into the merged list gives the merged list again, same records
\* in the same order.
C12_MergeIdempotent ==
    lPc = "twice" => journalEntries = cachedEntries

C12_Witness ==
    /\ lPc = "twice"
    /\ journalEntries = cachedEntries
    /\ Len(fEntries) > 0
    /\ Len(journalEntries) > Len(fEntries)
    /\ \E i, j \in 1..Len(journalEntries) :
           /\ i < j
           /\ journalEntries[i].date = journalEntries[j].date
           /\ journalEntries[i].updatedAt = 1 /\ journalEntries[j].updatedAt = 0

\* C13: getFromCache reports isStale = FALSE exactly when a watermark exists
\* and now - lastSync < maxAge: a cache written at T is valid at T + maxAge - 1,
\* stale at T + maxAge and after, and stale without a watermark; a load that
\* read entries from the cache carries that verdict.
C13_FreshnessBoundary ==
    /\ \A sync \in Times \cup {NoSync}, t \in 0..(MaxNow + maxAge + 1) :
           getFromCache(cache, sync, currentUser, t).isStale
               = ~(sync # NoSync /\ t - sync < maxAge)
    /\ \A T \in Times :
           /\ ~getFromCache(cache, T, currentUser, T + maxAge - 1).isStale
           /\ getFromCache(cache, T, currentUser, T + maxAge).isStale
           /\ getFromCache(cache, T, currentUser, T + maxAge + 1).isStale
    /\ getFromCache(cache, NoSync, currentUser, now).isStale
    /\ (lPc \in {"fetch", "background"} /\ Len(cachedEntries) > 0) =>
           isStale = ~(lastSync[currentUser] # NoSync
                       /\ now - lastSync[currentUser] < maxAge)

C13_Witness ==
    /\ lPc = "background" /\ isStale
    /\ Len(cachedEntries) > 0
    /\ lastSync[currentUser] # NoSync
    /\ now - lastSync[currentUser] = maxAge

\* C14: no remote query is issued before the cache read of the load has
\* completed; entries read from the cache are displayed before the query; and
\* the delta fetch of a stale cache runs after loadEntries has returned.
LoadQuerying == lPc \in {"query", "merge"}

C14_CacheReadBeforeQuery ==
    /\ LoadQuerying => lBefore = <<cache, lastSync>>
    /\ (LoadQuerying /\ Len(cachedEntries) > 0) => journalEntries = cachedEntries
    /\ (LoadQuerying /\ Len(cachedEntries) > 0 /\ isStale) => lReturned

C14_Witness ==
    /\ lPc = "merge" /\ lReturned
    /\ Len(cachedEntries) > 0 /\ isStale
    /\ Len(fEntries) > 0
    /\ journalEntries = cachedEntries

\* C15: a saveSurvey for a user and day that already has a survey in the
\* remote repository fails at its existence check: it never gets to the write.
C15_DuplicateSurveyRejected ==
    smPc = "write" =>
        \A r \in remoteSurveys :
            ~(r.userId = currentUser
              /\ getLocalMidnight(r.targetDate) = getLocalMidnight(smData.targetDate))

\* C16: when the remote saveSurvey step of a survey submission fails, the
\* local stores are as they were when the submission was called: the
\* surveysCache and the surveys store hold no new record and every draft of
\* then is still in the drafts store.  Both submission paths are covered:
\* SurveyManager.submitSurvey and DatabaseService.submitSurvey.
C16_FailedSubmitKeepsLocalStores ==
    /\ (smPc = "failed" /\ smErr \in {"network", "duplicate"}) =>
           /\ surveysCache = smBefore[1]
           /\ \A d \in smBefore[2] : \E e \in drafts : e.key = d.key
    /\ (DbIdle /\ dbRes.op = "submitSurvey" /\ dbRes.err = "saveSurvey") =>
           /\ surveysCache = dbBefore[1]
           /\ surveysStore = dbBefore[3]
           /\ \A d \in dbBefore[2] : \E e \in drafts : e.key = d.key

\* C17: a getSurveyForDate(targetDate, userId) that returns resolves in this
\* order: the cached survey of the normalized date, without a remote call and
\* without a write; else, with a userId, the remote survey of that date, which
\* is also written into the surveysCache; else the draft of that date, with
\* status 'draft'; else null.
C17_LookupOrder ==
    [][(ops' = ops + 1 /\ dbRes'.op = "getSurveyForDate" /\ dbRes'.err = "none") =>
        LET res == dbRes'
            key == getLocalMidnight(res.targetDate)
            c == {x \in surveysCache : x.key = key}
            r == {x \in remoteSurveys : x.userId = res.userId /\ x.targetDate = key}
            d == {x \in drafts : x.key = key}
        IN IF c # {}
           THEN /\ res.from = "cache" /\ ~res.remoteCalled /\ res.status # "draft"
                /\ \E x \in c : res.version = x.version
                /\ surveysCache' = surveysCache
           ELSE IF res.userId # NoUser /\ r # {}
           THEN /\ res.from = "remote" /\ res.remoteCalled /\ res.status # "draft"
                /\ \E x \in r :
                       /\ res.version = x.version
                       /\ surveysCache' = surveysCache \cup
                              {[key |-> key, userId |-> x.userId, version |-> x.version]}
           ELSE IF d # {}
           THEN /\ res.from = "draft" /\ res.status = "draft"
                /\ res.remoteCalled = (res.userId # NoUser)
                /\ \E x \in d : res.version = x.version
                /\ surveysCache' = surveysCache
           ELSE /\ res.from = "none" /\ ~res.exists
                /\ res.remoteCalled = (res.userId # NoUser)
                /\ surveysCache' = surveysCache]_vars

C17_Witness ==
    /\ DbIdle /\ dbRes.op = "getSurveyForDate" /\ dbRes.from = "remote"
    /\ \E d \in dbBefore[2] : d.key = getLocalMidnight(dbRes.targetDate)
    /\ \A c \in dbBefore[1] : c.key # getLocalMidnight(dbRes.targetDate)
    /\ \E c \in surveysCache : /\ c.key = getLocalMidnight(dbRes.targetDate)
                               /\ c.version = dbRes.version
    /\ dbRes.targetDate # getLocalMidnight(dbRes.targetDate)

\* C18: a hasSurveyForDate(targetDate) whose lookups all answer returns true
\* exactly when the surveysCache, the remote repository (for a signed-in user)
\* or the drafts store holds a record for the normalized date, and a remote
\* hit on a cache miss is written into the surveysCache.
C18_ExistsInAnyStore ==
    [][(ops' = ops + 1 /\ dbRes'.op = "hasSurveyForDate" /\ dbRes'.err = "none") =>
        LET res == dbRes'
            key == getLocalMidnight(res.targetDate)
            c == {x \in surveysCache : x.key = key}
            r == {x \in remoteSurveys : /\ currentUser # NoUser
                                        /\ x.userId = currentUser
                                        /\ x.targetDate = key}
            d == {x \in drafts : x.key = key}
        IN /\ res.exists = (c # {} \/ r # {} \/ d # {})
           /\ (c = {} /\ r # {}) => \E x \in surveysCache' : x.key = key]_vars

\* C19: when cleanupOldDrafts has completed, none of the drafts that were
\* there when it was called is left if its date has a survey in the
\* surveysCache, and every one whose date has none is still there unchanged
\* (drafts saved while cleanup was running are C20's matter).
C19_CleanupRemovesCompletedDrafts ==
    (DbIdle /\ dbRes.op = "cleanupOldDrafts") =>
        \A d \in dbBefore[2] :
            (\A e \in dbSaved : e.key # d.key) =>
                IF getCachedSurvey(surveysCache, d.key) # {}
                THEN \A e \in drafts : e.key # d.key
                ELSE d \in drafts

\* C20: however saveDraft calls fall between the steps of cleanupOldDrafts,
\* cleanup completes without an error, every draft that was there when it was
\* called and whose date has no survey in the surveysCache still has a draft,
\* and the draft of such a date saved meanwhile is the last value saved.
C20_CleanupSafeWithSaveDraft ==
    (DbIdle /\ dbRes.op = "cleanupOldDrafts") =>
        /\ dbRes.err = "none"
        /\ \A d \in dbBefore[2] :
               getCachedSurvey(surveysCache, d.key) = {} =>
                   \E e \in drafts : e.key = d.key
        /\ \A d \in dbSaved :
               getCachedSurvey(surveysCache, d.key) = {} => d \in drafts

C20_Witness ==
    /\ DbIdle /\ dbRes.op = "cleanupOldDrafts" /\ dbRes.err = "none"
    /\ \E d \in dbBefore[2], e \in dbSaved :
           /\ e.key = d.key /\ e.version # d.version
           /\ e \in drafts
           /\ getCachedSurvey(surveysCache, d.key) = {}

\* C21: when a delete has completed, the day of the deleted entry has left
\* the entry-date index if and only if no other entry of the list is on that
\* day, and the keys of all other days are as they were before the delete.
C21_DeleteUpdatesDateIndex ==
    (mKind = "delete" /\ mPc = "done") =>
        LET dateKey == formatDateKey(mEntry.date)
            remains == \E j \in 1..Len(journalEntries) :
                           formatDateKey(journalEntries[j].date) = dateKey
        IN entryDates = IF remains THEN mBefore[4] ELSE mBefore[4] \ {dateKey}

\* C22: after a load, a create or a delete has completed, the persisted
\* entry-date index of the user is the set of days on which the user has an
\* entry in the remote repository.
C22_DateIndexIsDaysWithEntries ==
    (\/ lPc = "done" /\ fErr = "none" /\ mPc = "idle"
     \/ mPc = "done" /\ mKind \in {"save", "delete"}) =>
        datesCache[currentUser] =
            {formatDateKey(d.date) : d \in {x \in remote : x.userId = currentUser}}

\* C23: when syncSurveysFromFirebase returns successfully, every survey the
\* remote repository holds for the user is in the surveysCache under its
\* normalized date, however many there are.
C23_SyncCachesEverySurvey ==
    [][(ops' = ops + 1 /\ dbRes'.op = "syncSurveysFromFirebase"
        /\ dbRes'.err = "none") =>
        \A d \in {x \in remoteSurveys : x.userId = dbRes'.userId} :
            \E c \in surveysCache' : /\ c.key = getLocalMidnight(d.targetDate)
                                     /\ c.userId = d.userId
                                     /\ c.version = d.version]_vars

\* C24: a load that met a local store failure while reading (the entries or
\* the watermark could not be read) still ends with the entries of the remote
\* repository in the list: the first page of the user's entries is loaded.
C24_LocalReadFailureNonFatal ==
    (lPc \in {"done", "failed"} /\ fErr \in {"cacheRead", "lastSync"}) =>
        IdsOf(getUserEntries(remote, currentUser, NoSync, PageSize).entries)
            \subseteq IdsOf(journalEntries)

\* what one loadEntries call alone makes of the entries store and of the list
SingleLoad(store, sync, list) ==
    LET cached == sortByDateDesc(getFromCache(store, sync[currentUser], currentUser,
                                              now).entries)
        since == IF Len(cached) > 0 THEN sync[currentUser] ELSE NoSync
        entries == getUserEntries(remote, currentUser, since, PageSize).entries
        merged == mergeUpdates(cached, entries)
    IN IF Len(entries) > 0 THEN <<updateCache(store, currentUser, merged), merged>>
       ELSE <<store, IF Len(cached) > 0 THEN cached ELSE list>>

\* C25: when two loadEntries calls that started from the same entries store
\* and watermark have both completed without an error, the entries store and
\* the list are what a single call would have left.
C25_ConcurrentLoadsAsOne ==
    (/\ lPc = "done" /\ fErr = "none"
     /\ lOther.lPc = "done" /\ lOther.fErr = "none"
     /\ lOther.lBefore = lBefore) =>
        <<cache, journalEntries>> = SingleLoad(lBefore[1], lBefore[2], journalEntries)

\* C26: a date that has a survey in the surveysCache keeps one through every
\* DatabaseService operation, and a getSurveyForDate of that date returns the
\* cached survey, never a record with status 'draft', even when a draft for
\* the date has been saved again.
C26_CompletedIsOneWay ==
    [][/\ \A c \in surveysCache : \E e \in surveysCache' : e.key = c.key
       /\ (/\ ops' = ops + 1
           /\ dbRes'.op = "getSurveyForDate" /\ dbRes'.err = "none"
           /\ getCachedSurvey(surveysCache, dbRes'.targetDate) # {}) =>
              /\ dbRes'.from = "cache"
              /\ dbRes'.status # "draft"]_vars

C26_Witness ==
    /\ DbIdle /\ dbRes.op = "getSurveyForDate" /\ dbRes.from = "cache"
    /\ dbRes.status # "draft"
    /\ \E d \in drafts : d.key = getLocalMidnight(dbRes.targetDate)
    /\ \E c \in surveysCache : c.key = getLocalMidnight(dbRes.targetDate)

\* C27: in every drafts store the program reaches, after saveDraft(d) a
\* loadDraft(t) returns d for every t of d's local day and what it returned
\* before for the other days; the store then holds one draft for that day,
\* whatever it held before; and deleteDraft(t) for any t of that day removes
\* it and nothing else.
C27_DraftsKeyedByLocalDay ==
    \A t0 \in Times, v \in DraftVersions, t \in Times :
        LET saved == saveDraft(drafts, [targetDate |-> t0, version |-> v])
            again == saveDraft(saved, [targetDate |-> t, version |-> 1 - v])
            sameDay == formatDateKey(t) = formatDateKey(t0)
        IN /\ sameDay => /\ Cardinality(loadDraft(saved, t)) = 1
                         /\ \A d \in loadDraft(saved, t) : d.version = v
                         /\ Cardinality(loadDraft(again, t0)) = 1
                         /\ \A d \in loadDraft(again, t0) : d.version = 1 - v
                         /\ Cardinality(again) = Cardinality(saved)
                         /\ loadDraft(deleteDraft(saved, t), t0) = {}
           /\ ~sameDay => /\ loadDraft(saved, t) = loadDraft(drafts, t)
                          /\ loadDraft(deleteDraft(saved, t), t0) = loadDraft(saved, t0)
           /\ \A d \in deleteDraft(saved, t) : d \in saved

C27_Witness ==
    /\ DbIdle /\ dbRes.op = "saveDraft"
    /\ dbRes.targetDate # getLocalMidnight(dbRes.targetDate)
    /\ \E b \in dbBefore[2] : /\ formatDateKey(b.key) = formatDateKey(dbRes.targetDate)
                              /\ b.version # dbRes.version
    /\ \A d \in drafts : formatDateKey(d.key) = formatDateKey(dbRes.targetDate) =>
                             d.version = dbRes.version
    /\ Cardinality(drafts) = 2

\* C28: every entry in the remote repository, written by saveEntry, by an
\* edit or by the localStorage migration, has content or at least one image.
C28_PersistedEntryNotEmpty ==
    \A d \in remote : d.content # 0 \/ d.images # {}

C28_Witness ==
    /\ mKind = "edit" /\ mPc = "done"
    /\ \E d \in remote : d.id = mEntry.id /\ d.content = 0 /\ d.images # {}
    /\ \E d \in remote : d.id # mEntry.id /\ d.content # 0 /\ d.images = {}

\* C29: a remote query that fails during a load is surfaced to the caller of
\* the load: the load ends as failed, or the list it leaves differs from the
\* list a successful query without changes leaves.
C29_QueryFailureSurfaced ==
    [][(lPc = "query" /\ fErr' = "query") =>
          \/ lPc' = "failed"
          \/ journalEntries' # (IF Len(cachedEntries) > 0 THEN cachedEntries
                                ELSE journalEntries)]_vars

\* C30: when an entry is deleted, the deletion of every image it references
\* has been attempted and has settled before its record leaves the remote
\* repository, and its cached record is removed only after the remote record
\* is gone.
C30_DeleteOrder ==
    [][mKind = "delete" =>
          /\ (mEntry.id \in RemoteIds /\ mEntry.id \notin RemoteIds') =>
                 /\ mEntry.images \subseteq imgTried
                 /\ \A d \in remote : d.id = mEntry.id => d.images \subseteq imgTried'
          /\ (mEntry.id \in CacheIds /\ mEntry.id \notin CacheIds') =>
                 /\ mPc = "mirror"
                 /\ mEntry.id \notin RemoteIds]_vars

C30_Witness ==
    /\ mKind = "delete" /\ mPc = "done"
    /\ mEntry.images # {} /\ imgTried = mEntry.images
    /\ imgFailed = mEntry.images
    /\ \E e \in mBefore[1] : e.id = mEntry.id
    /\ mEntry.id \notin CacheIds /\ mEntry.id \notin RemoteIds

\* a cached record that is the remote record d in that version or a newer one
CachedAsOf(store, d) ==
    \E e \in store :
        /\ e.id = d.id
        /\ \/ e.updatedAt >= d.updatedAt
           \/ e.content = d.content /\ e.date = d.date /\ e.images = d.images

\* C31: no remote change is permanently missed by delta sync: when a load with
\* a stale non-empty cache advances the watermark from w to w', every remote
\* entry of the user with w < updatedAt <= w' is in the cache in that version
\* or a newer one.
C31_DeltaSyncMissesNothing ==
    [][(lPc = "merge" /\ isStale /\ Len(cachedEntries) > 0
            /\ lastSync'[currentUser] # lastSync[currentUser]) =>
          \A d \in remote :
              (d.userId = currentUser /\ d.updatedAt > lastSync[currentUser]
                   /\ d.updatedAt <= lastSync'[currentUser]) =>
                  CachedAsOf(cache', d)]_vars

C33_ConcurrentSavesKeepOneSurvey ==
    LET firstDone == smPc \in {"cache", "failed"}
        firstOk == smPc = "cache"
        secondDone == DbIdle /\ dbRes.op = "saveSurvey"
        secondOk == dbRes.status = "completed"
        stored == getFirebaseSurveyForDate(remoteSurveys, currentUser, smData.targetDate)
    IN (firstDone /\ secondDone /\ DialogOpen /\ dbRes.targetDate = smData.targetDate) =>
           /\ ~(firstOk /\ secondOk)
           /\ Cardinality(stored) <= 1
           /\ (firstOk \/ secondOk) => Cardinality(stored) = 1

\* C34: a debounced autosave still pending when the survey is submitted does
\* not re-create the draft: once the submission for a date has succeeded and
\* no autosave timer is pending, no draft for that date exists.
C34_PendingAutosaveLeavesNoDraft ==
    (smPc = "done" /\ DialogOpen /\ ~saveTimer) =>
        loadDraft(drafts, smData.targetDate) = {}

\* C35: entries are cached only under the id of the user who owns them, and a
\* load never dereferences a null user, also when the signed-in user changes
\* between the load's cache read and its fetchAndMergeUpdates.
C35_CacheKeepsOwner ==
    /\ \A e \in cache : \A d \in remote : d.id = e.id => d.userId = e.userId
    /\ fErr # "nullUser"

\* C36: the local survey stores do not leak across users of one device: a
\* lookup made while a user is signed in never answers from a completed survey
\* cached for another user or from a draft saved by another user.
C36_SurveyStoresPerUser ==
    [][(ops' = ops + 1 /\ dbRes'.op \in {"getSurveyForDate", "hasSurveyForDate"}
            /\ dbRes'.err = "none") =>
          /\ dbRes'.from = "cache" =>
                 \A c \in getCachedSurvey(surveysCache, dbRes'.targetDate) :
                     c.userId = currentUser
          /\ dbRes'.from = "draft" => currentUser = DraftAuthor]_vars

\* C37: deleteEntry reports success, and never failure, whenever the remote
\* delete and the cache removal both succeeded (and the write of the dates
\* index did not fail), wherever the deleted entry stood in the list.
C37_DeleteReportsSuccess ==
    (mKind = "delete" /\ mPc = "failed") => mErr \in {"remote", "cache", "dates"}

\* C38: no fetched page is lost by loadMoreEntries: a call starts only while
\* no other one is in flight, and when a call that has advanced the cursor
\* past a page ends, all entries of that page are in the in-memory list and
\* in the entries cache.
C38_LoadMoreKeepsPage ==
    [][/\ (~isLoading /\ isLoading') => (lPc' = "moreQuery" /\ ops' = ops + 1)
       /\ (lPc = "moreCache" /\ ~isLoading') =>
              /\ IdsOf(fEntries) \subseteq IdsOf(journalEntries')
              /\ IdsOf(fEntries) \subseteq CacheIds']_vars

\* the user's cache is expired, or has no watermark, at the time t
Expired(sync, t) == sync[currentUser] = NoSync \/ t - sync[currentUser] >= maxAge

\* C39: with staleWhileRevalidate disabled, an expired cache (or one without a
\* watermark) is reported as empty and stale, so the load displays nothing from
\* it and its query is the full one; with it enabled, the stale entries are
\* returned and displayed at once.
C39_StaleWhileRevalidate ==
    [][/\ (LoadIdle /\ ops' = ops + 1 /\ lPc' \in {"fetch", "background"}) =>
              LET mine == {e \in cache : e.userId = currentUser}
              IN IF Expired(lastSync, now) /\ ~staleWhileRevalidate
                 THEN /\ cachedEntries' = <<>> /\ isStale'
                      /\ journalEntries' = journalEntries
                      /\ lPc' = "fetch"
                 ELSE /\ Range(cachedEntries') = mine
                      /\ isStale' = Expired(lastSync, now)
                      /\ mine # {} => journalEntries' = cachedEntries'
       /\ (lPc = "query" /\ lPc' = "merge" /\ Expired(lBefore[2], now)
               /\ ~staleWhileRevalidate) =>
              fEntries' = getUserEntries(remote, currentUser, NoSync, PageSize).entries]_vars

C39_Witness ==
    /\ ~staleWhileRevalidate
    /\ lPc = "merge"
    /\ \E e \in lBefore[1] : e.userId = currentUser
    /\ lBefore[2][currentUser] # NoSync /\ now - lBefore[2][currentUser] >= maxAge
    /\ cachedEntries = <<>>
    /\ Len(fEntries) > 0
====
